---- MODULE Spec2Model ----
(***************************************************************************)
(* Hybrid (X25519 + ML-KEM-768) end-to-end message encryption of           *)
(* chatter-shack: the crypto module (crypto.ts, kept at the end of         *)
(* src/components/ChatWindow.tsx), the login / sign-up key handling of     *)
(* pages/Auth.tsx, the sign-out of pages/Index.tsx and sendMessage of      *)
(* components/ChatWindow.tsx.                                              *)
(*                                                                         *)
(* The libraries (tweetnacl, tweetnacl-util, mlkem) are modelled by small  *)
(* arithmetic stand-ins that keep their algebra:                           *)
(*   - X25519 is Diffie-Hellman in the subgroup of prime order 11 of       *)
(*     Z_23^*; ML-KEM is a key encapsulation in the same subgroup with     *)
(*     implicit rejection;                                                 *)
(*   - byte arrays of the different fixed lengths (32-byte public key,     *)
(*     32-byte secret key, 1184-byte encapsulation key, ...) are integers  *)
(*     of disjoint ranges, so that a length check is a range check;        *)
(*   - secretbox is a stream cipher with a one-element authenticator that  *)
(*     is injective in (key, nonce, body): forgeries have probability 0    *)
(*     instead of 2^-128;                                                  *)
(*   - random bytes are drawn from seeds that are never drawn twice.       *)
(***************************************************************************)
EXTENDS Integers, Sequences, FiniteSets, TLC

(* ------------------------------ bounds -------------------------------- *)

\* longest plaintext, in characters
MaxLen == 1
\* encryptMessage calls in one behaviour of SpecCrypto
MaxEnc == 2
\* the number of identity key pairs generated in one behaviour
MaxKeyGen == 2
\* the number of requests, storage writes and random draws that fail in one behaviour
MaxFaults == 1
\* the number of sendMessage calls that get to encrypt in one behaviour
MaxSends == 1
\* the number of key pairs deriveConversationKeyPair generates in one behaviour
MaxDerive == 3
\* the number of rows of the messages table in one behaviour of SpecLoad
MaxRows == 2
\* the loadMessages calls of one ChatWindow that have not set the list
MaxLoads == 2

(* ------------------------- strings and bytes --------------------------- *)

\* characters of a message: 0 is a space, 1 an ASCII letter, 2 a two-byte letter
Chars == {0, 1, 2}

RECURSIVE SeqsUpTo(_, _)
SeqsUpTo(S, n) ==
  IF n = 0 THEN {<<>>}
  ELSE LET shorter == SeqsUpTo(S, n - 1)
       IN  shorter \cup {Append(s, c) : s \in {t \in shorter : Len(t) = n - 1}, c \in S}

Strings == SeqsUpTo(Chars, MaxLen)

\* a JavaScript value held in a string slot: null, a string that is the base64
\* of the bytes v, or another string ("" is [t |-> "str", v |-> 0])
Null == [t |-> "null", v |-> 0]
EmptyStr == [t |-> "str", v |-> 0]
Garbage == [t |-> "str", v |-> 1]

Truthy(s) == s.t # "null" /\ s # EmptyStr

\* the result of a call that may throw
\* (err is the message of the Error, in parts: the wrapper's text, then its cause)
Ok(x) == [ok |-> TRUE, val |-> x, err |-> <<>>]
Throw(e) == [ok |-> FALSE, val |-> Null, err |-> <<e>>]
Rethrow(e, r) == [ok |-> FALSE, val |-> Null, err |-> <<e>> \o r.err]

encodeBase64(bytes) == [t |-> "b64", v |-> bytes]

\* naclUtil.decodeBase64 throws on a string that is not base64
decodeBase64(s) == IF s.t = "b64" THEN Ok(s.v) ELSE Throw("invalid encoding")

\* a faulty encoding: one byte per character, also for a multi-byte character
decodeOneBytePerChar(str) == str

\* naclUtil.decodeUTF8: the bytes of a string (the character 2 takes two bytes)
RECURSIVE decodeUTF8(_)
decodeUTF8(str) ==
  IF str = <<>> THEN <<>>
  ELSE (IF Head(str) = 2 THEN <<2, 3>> ELSE <<Head(str)>>) \o decodeUTF8(Tail(str))

\* whether a byte sequence is well-formed: 2 is a lead byte and 3 its continuation
RECURSIVE WellFormedUTF8(_)
WellFormedUTF8(bytes) ==
  IF bytes = <<>> THEN TRUE
  ELSE IF Head(bytes) \in {0, 1} THEN WellFormedUTF8(Tail(bytes))
  ELSE IF Head(bytes) = 2 /\ Len(bytes) >= 2 /\ bytes[2] = 3
       THEN WellFormedUTF8(Tail(Tail(bytes)))
  ELSE FALSE

RECURSIVE UTF8Chars(_)
UTF8Chars(bytes) ==
  IF bytes = <<>> THEN <<>>
  ELSE IF Head(bytes) = 2 THEN <<2>> \o UTF8Chars(Tail(Tail(bytes)))
  ELSE <<Head(bytes)>> \o UTF8Chars(Tail(bytes))

\* naclUtil.encodeUTF8 throws on malformed bytes
encodeUTF8(bytes) ==
  IF WellFormedUTF8(bytes) THEN Ok(UTF8Chars(bytes)) ELSE Throw("URI malformed")

\* String.prototype.trim
RECURSIVE TrimLeft(_)
TrimLeft(str) ==
  IF str # <<>> /\ Head(str) = 0 THEN TrimLeft(Tail(str)) ELSE str

RECURSIVE TrimRight(_)
TrimRight(str) ==
  IF str # <<>> /\ str[Len(str)] = 0 THEN TrimRight(SubSeq(str, 1, Len(str) - 1)) ELSE str

Trim(str) == TrimRight(TrimLeft(str))

(* ------------------------------ arithmetic ----------------------------- *)

RECURSIVE XorBits(_, _, _)
XorBits(a, b, bits) ==
  IF bits = 0 THEN 0
  ELSE (((a % 2) + (b % 2)) % 2) + 2 * XorBits(a \div 2, b \div 2, bits - 1)

\* the modulus of the group and the order of its subgroup
GroupP == 23
GroupQ == 11
\* the X25519 base point and the generator used by the KEM
BasePoint == 2
KemBase == 3

RECURSIVE ModExp(_, _)
ModExp(b, e) == IF e = 0 THEN 1 ELSE (b * ModExp(b, e - 1)) % GroupP

Scalars == 1..(GroupQ - 1)
InSubgroup(x) == x \in 1..(GroupP - 1) /\ ModExp(x, GroupQ) = 1

(* --------------------------- tweetnacl (box) --------------------------- *)

\* byte arrays of a fixed length, as disjoint ranges: a 32-byte public key is a
\* group element, a 32-byte secret key is 100 + its scalar
IsPublicKeyBytes(x) == x \in 0..31
IsSecretKeyBytes(x) == x \in 100..131

\* a key pair that is kept and handed out again, whatever the random bytes
box_keyPairKept(seed) == [publicKey |-> ModExp(BasePoint, 1), secretKey |-> 101]

\* nacl.box.keyPair(), from the random bytes of `seed`
box_keyPair(seed) ==
  [publicKey |-> ModExp(BasePoint, seed), secretKey |-> 100 + seed]

\* nacl.box.keyPair.fromSecretKey
box_keyPair_fromSecretKey(secretKey) ==
  IF IsSecretKeyBytes(secretKey)
  THEN Ok([publicKey |-> ModExp(BasePoint, secretKey - 100), secretKey |-> secretKey])
  ELSE Throw("bad secret key size")

\* nacl.box.before(publicKey, secretKey): the X25519 shared secret
box_before(publicKey, secretKey) ==
  IF ~IsPublicKeyBytes(publicKey) THEN Throw("bad public key size")
  ELSE IF ~IsSecretKeyBytes(secretKey) THEN Throw("bad secret key size")
  ELSE Ok(ModExp(publicKey, secretKey - 100) % GroupP)

(* ------------------------------- mlkem --------------------------------- *)

\* a 1184-byte encapsulation key is 200 + e, a 2400-byte decapsulation key is
\* 300 + d, a 1088-byte capsule is 400 + c, a shared secret is 32 bytes
IsEncapKeyBytes(x) == x \in 200..231
IsDecapKeyBytes(x) == x \in 300..331
IsCapsuleBytes(x) == x \in 400..431

\* MlKem768.generateKeyPair(), from the random bytes of `seed`: [pk, sk]
MlKem_generateKeyPair(seed) ==
  <<200 + ModExp(KemBase, seed), 300 + seed>>

\* MlKem768.encap(pk): [capsule, sharedSecret], from the random bytes of `seed`
MlKem_encap(pk, seed) ==
  IF ~IsEncapKeyBytes(pk) THEN Throw("invalid encapsulation key")
  ELSE Ok(<<400 + ModExp(KemBase, seed), ModExp(pk - 200, seed)>>)

\* MlKem768.decap(capsule, sk): the shared secret; a capsule that is no
\* encapsulation is rejected implicitly (a secret no encapsulation yields)
MlKem_decap(capsule, sk) ==
  IF ~IsCapsuleBytes(capsule) THEN Throw("invalid ciphertext size")
  ELSE IF ~IsDecapKeyBytes(sk) THEN Throw("invalid decapsulation key")
  ELSE IF InSubgroup(capsule - 400) THEN Ok(ModExp(capsule - 400, sk - 300))
  ELSE Ok(0)

(* ------------------------- tweetnacl (secretbox) ----------------------- *)

\* a 24-byte nonce
IsNonceBytes(x) == x \in 500..531
IsKeyBytes(x) == x \in 0..31

\* nacl.randomBytes(nacl.secretbox.nonceLength), from the random bytes of `seed`
randomNonce(seed) == 500 + seed

\* the XSalsa20 key stream
KeyStream(key, nonce, i) == (key + nonce + i) % 4

StreamXor(bytes, nonce, key) ==
  [i \in 1..Len(bytes) |-> XorBits(bytes[i], KeyStream(key, nonce, i), 2)]

RECURSIVE BodyCode(_)
BodyCode(body) ==
  IF body = <<>> THEN 0 ELSE 1 + Head(body) + 5 * BodyCode(Tail(body))

\* the Poly1305 authenticator of a body: injective in (key, nonce, body), and
\* sparse (a multiple of 32: no authenticator is another with low bits flipped)
Poly1305(key, nonce, body) == 32 * (key + 32 * (nonce - 500) + 1024 * BodyCode(body))

\* nacl.secretbox(msg, nonce, key): the authenticator, then the encrypted body
secretbox(msg, nonce, key) ==
  IF ~IsKeyBytes(key) THEN Throw("bad key size")
  ELSE IF ~IsNonceBytes(nonce) THEN Throw("bad nonce size")
  ELSE LET body == StreamXor(msg, nonce, key)
       IN  Ok(<<Poly1305(key, nonce, body)>> \o body)

\* the null that nacl.secretbox.open returns (no message holds the byte -1)
NullBytes == <<-1>>

\* nacl.secretbox.open(box, nonce, key): the message, or null
secretbox_open(box, nonce, key) ==
  IF ~IsKeyBytes(key) THEN Throw("bad key size")
  ELSE IF ~IsNonceBytes(nonce) THEN Throw("bad nonce size")
  ELSE IF Len(box) < 1 THEN Ok(NullBytes)
  ELSE IF Head(box) # Poly1305(key, nonce, Tail(box)) THEN Ok(NullBytes)
  ELSE Ok(StreamXor(Tail(box), nonce, key))

\* nacl.box.open.after is nacl.secretbox.open (tweetnacl assigns the same function)
box_open_after(box, nonce, key) == secretbox_open(box, nonce, key)

(* ------------------------ crypto.ts: the key store --------------------- *)

Users == {"u1", "u2"}
Devices == {"d1", "d2"}

\* a faulty name: one item for the classical keys of all users
getIdentityPrivateKeyNameShared(userId) == <<"identity_private_key_", "u1">>

getIdentityPrivateKeyName(userId) == <<"identity_private_key_", userId>>
getPqcIdentityPrivateKeyName(userId) == <<"pqc_identity_private_key_", userId>>

\* the conversations, and the item of the per-conversation key of one
Conversations == {"c1", "c2"}
getEphemeralPrivateKeyName(conversationId) == <<"ephemeral_key_", conversationId>>

StorageNames ==
  {getIdentityPrivateKeyName(u) : u \in Users}
    \cup {getPqcIdentityPrivateKeyName(u) : u \in Users}
    \cup {getEphemeralPrivateKeyName(c) : c \in Conversations}

EmptyStorage == [n \in StorageNames |-> Null]

\* generateHybridKeyPair(), from the random bytes of `seed` (<<classical, pqc>>)
generateHybridKeyPair(seed) ==
  LET classical == box_keyPair(seed[1])
      pqc == MlKem_generateKeyPair(seed[2])
  IN  [classical |-> [publicKey |-> encodeBase64(classical.publicKey),
                      privateKey |-> encodeBase64(classical.secretKey)],
       pqc |-> [publicKey |-> pqc[1], privateKey |-> pqc[2]]]

\* storeHybridPrivateKeys on the storage ls. quota is the number of setItem
\* calls the storage accepts before it throws (2: both are accepted).
\* The result's val is the storage afterwards, also when the call throws.
storeHybridPrivateKeys(ls, userId, classicalPrivateKey, pqcPrivateKey, quota) ==
  LET ls1 == IF quota >= 1
             THEN [ls EXCEPT ![getIdentityPrivateKeyName(userId)] = classicalPrivateKey]
             ELSE ls
      ls2 == IF quota >= 2
             THEN [ls1 EXCEPT ![getPqcIdentityPrivateKeyName(userId)] =
                                 encodeBase64(pqcPrivateKey)]
             ELSE ls1
  IN  [ok |-> quota >= 2, val |-> ls2,
       err |-> IF quota >= 2 THEN <<>>
               ELSE <<"Storage failed - localStorage might be full or disabled">>]

getIdentityPrivateKey(ls, userId) == ls[getIdentityPrivateKeyName(userId)]

\* getPqcPrivateKey: a Uint8Array ([t |-> "bytes"]) or null
getPqcPrivateKey(ls, userId) ==
  LET stored == ls[getPqcIdentityPrivateKeyName(userId)]
  IN  IF ~Truthy(stored) THEN Null
      ELSE IF decodeBase64(stored).ok
           THEN [t |-> "bytes", v |-> decodeBase64(stored).val]
           ELSE Null

\* a faulty clearUserKeys: one item is removed per call
clearUserKeysOneItem(ls, userId) ==
  IF ls[getIdentityPrivateKeyName(userId)] # Null
  THEN [ls EXCEPT ![getIdentityPrivateKeyName(userId)] = Null]
  ELSE [ls EXCEPT ![getPqcIdentityPrivateKeyName(userId)] = Null]

clearUserKeys(ls, userId) ==
  [ls EXCEPT ![getIdentityPrivateKeyName(userId)] = Null,
             ![getPqcIdentityPrivateKeyName(userId)] = Null]

\* a faulty check: only the classical half is looked at
hasUserKeysClassical(ls, userId) == Truthy(getIdentityPrivateKey(ls, userId))

hasUserKeys(ls, userId) ==
  Truthy(getIdentityPrivateKey(ls, userId)) /\ Truthy(getPqcPrivateKey(ls, userId))

(* --------------------- crypto.ts: encryptMessage ----------------------- *)

\* steps 1 to 3 of encryptMessage: ML-KEM encapsulation, X25519 with a fresh
\* ephemeral key pair, and the XOR of the two secrets
EncryptFinalKey(recipientClassicalUint8, recipientPqcUint8, seed) ==
  LET ephemeralKeyPair == box_keyPair(seed)
      kem == MlKem_encap(recipientPqcUint8, seed)
      ephemeralShared == box_before(recipientClassicalUint8, ephemeralKeyPair.secretKey)
  IN  IF ~kem.ok THEN kem
      ELSE IF ~ephemeralShared.ok THEN ephemeralShared
      ELSE Ok([finalKey |-> XorBits(kem.val[2], ephemeralShared.val, 5),
               kemCapsule |-> kem.val[1],
               ephemeralPublicKey |-> ephemeralKeyPair.publicKey])

\* the try block of encryptMessage; nacl.box.keyPair and nacl.randomBytes throw
\* when the platform has no source of random bytes (no seed in Scalars)
encryptMessageBody(message, recipientClassicalPublicKey, recipientPqcPublicKey, seed) ==
  LET nonce == randomNonce(seed)
      messageUint8 == decodeUTF8(message)
      recipientClassicalUint8 == decodeBase64(recipientClassicalPublicKey)
      recipientPqcUint8 == decodeBase64(recipientPqcPublicKey)
  IN  IF seed \notin Scalars THEN Throw("no PRNG")
      ELSE IF ~recipientClassicalUint8.ok THEN recipientClassicalUint8
      ELSE IF ~recipientPqcUint8.ok THEN recipientPqcUint8
      ELSE LET k == EncryptFinalKey(recipientClassicalUint8.val, recipientPqcUint8.val, seed)
           IN  IF ~k.ok THEN k
               ELSE LET encrypted == secretbox(messageUint8, nonce, k.val.finalKey)
                    IN  IF ~encrypted.ok THEN encrypted
                        ELSE Ok([ciphertext |-> encodeBase64(encrypted.val),
                                 nonce |-> encodeBase64(nonce),
                                 ephemeralPublicKey |->
                                   encodeBase64(k.val.ephemeralPublicKey),
                                 kemCapsule |-> encodeBase64(k.val.kemCapsule)])

encryptMessage(message, recipientClassicalPublicKey, recipientPqcPublicKey, seed) ==
  IF message = <<>> \/ ~Truthy(recipientClassicalPublicKey)
       \/ ~Truthy(recipientPqcPublicKey)
  THEN Throw("Missing required encryption parameters")
  ELSE LET r == encryptMessageBody(message, recipientClassicalPublicKey,
                                   recipientPqcPublicKey, seed)
       IN  IF r.ok THEN r ELSE Rethrow("Hybrid encryption failed", r)

(* --------------------- crypto.ts: decryptMessage ----------------------- *)

\* a faulty key derivation: the X25519 secret is left out of the key
DecryptFinalKeyKemOnly(kemCapsuleUint8, senderEphemeralUint8, recipientPqcPrivateKey, identityPrivKeyUint8) ==
  MlKem_decap(kemCapsuleUint8, recipientPqcPrivateKey)

\* steps 1 to 3 of decryptMessage: ML-KEM decapsulation, X25519 with the
\* identity private key, and the XOR of the two secrets
DecryptFinalKey(kemCapsuleUint8, senderEphemeralUint8, recipientPqcPrivateKey, identityPrivKeyUint8) ==
  LET sharedSecret == MlKem_decap(kemCapsuleUint8, recipientPqcPrivateKey)
      ephemeralShared == box_before(senderEphemeralUint8, identityPrivKeyUint8)
  IN  IF ~sharedSecret.ok THEN sharedSecret
      ELSE IF ~ephemeralShared.ok THEN ephemeralShared
      ELSE Ok(XorBits(sharedSecret.val, ephemeralShared.val, 5))

\* a faulty step 4: the fallback deciphers the body without checking the authenticator
SymmetricOpenUnchecked(ciphertext, nonce, finalKey, useOldFormat) ==
  LET decrypted == secretbox_open(ciphertext, nonce, finalKey)
  IN  IF decrypted.ok /\ decrypted.val = NullBytes /\ Len(ciphertext) >= 1
      THEN Ok(StreamXor(Tail(ciphertext), nonce, finalKey))
      ELSE decrypted

\* the calls of step 4 in their order, each with the value it assigns to
\* `decrypted`: the call `first`, and the call `second` if (!decrypted)
AttemptThenFallback(first, decrypted, second, fallback) ==
  IF decrypted.ok /\ decrypted.val = NullBytes
  THEN <<[by |-> first, decrypted |-> decrypted], [by |-> second, decrypted |-> fallback]>>
  ELSE <<[by |-> first, decrypted |-> decrypted]>>

\* a faulty step 4: the old format is tried first, the new format after it
SymmetricOpenAttemptsOldFirst(ciphertext, nonce, finalKey, useOldFormat) ==
  IF useOldFormat
  THEN <<[by |-> "box.open.after",
          decrypted |-> box_open_after(ciphertext, nonce, finalKey)]>>
  ELSE AttemptThenFallback("box.open.after", box_open_after(ciphertext, nonce, finalKey),
                           "secretbox.open", secretbox_open(ciphertext, nonce, finalKey))

\* step 4 of decryptMessage: the calls it makes in their order, each with the
\* value it assigns to `decrypted` (a call that throws is the last one)
SymmetricOpenAttempts(ciphertext, nonce, finalKey, useOldFormat) ==
  IF useOldFormat
  THEN <<[by |-> "box.open.after",
          decrypted |-> box_open_after(ciphertext, nonce, finalKey)]>>
  ELSE AttemptThenFallback("secretbox.open", secretbox_open(ciphertext, nonce, finalKey),
                           "box.open.after", box_open_after(ciphertext, nonce, finalKey))

\* what the last of the calls left in `decrypted`
LastDecrypted(attempts) == attempts[Len(attempts)].decrypted

\* step 4 of decryptMessage: the symmetric open, with the fallback to the old format
SymmetricOpen(ciphertext, nonce, finalKey, useOldFormat) ==
  LastDecrypted(SymmetricOpenAttempts(ciphertext, nonce, finalKey, useOldFormat))

decryptMessageBody(encryptedMessage, identityPrivKey, recipientPqcPrivateKey, useOldFormat) ==
  LET ciphertext == decodeBase64(encryptedMessage.ciphertext)
      nonce == decodeBase64(encryptedMessage.nonce)
      senderEphemeralUint8 == decodeBase64(encryptedMessage.ephemeralPublicKey)
      kemCapsuleUint8 == decodeBase64(encryptedMessage.kemCapsule)
      identityPrivKeyUint8 == decodeBase64(identityPrivKey)
  IN  IF ~ciphertext.ok THEN ciphertext
      ELSE IF ~nonce.ok THEN nonce
      ELSE IF ~senderEphemeralUint8.ok THEN senderEphemeralUint8
      ELSE IF ~kemCapsuleUint8.ok THEN kemCapsuleUint8
      ELSE IF ~identityPrivKeyUint8.ok THEN identityPrivKeyUint8
      ELSE LET finalKey == DecryptFinalKey(kemCapsuleUint8.val, senderEphemeralUint8.val,
                                           recipientPqcPrivateKey.v,
                                           identityPrivKeyUint8.val)
           IN  IF ~finalKey.ok THEN finalKey
               ELSE LET decrypted == SymmetricOpen(ciphertext.val, nonce.val,
                                                   finalKey.val, useOldFormat)
                    IN  IF ~decrypted.ok THEN decrypted
                        ELSE IF decrypted.val = NullBytes
                        THEN Throw("Decryption failed - invalid ciphertext or keys")
                        ELSE encodeUTF8(decrypted.val)

\* a faulty decryptMessage: the post-quantum private key is not checked before use
decryptMessageUnchecked(ls, encryptedMessage, senderEphemeralPublicKey, userId, useOldFormat) ==
  LET identityPrivKey == getIdentityPrivateKey(ls, userId)
      r == decryptMessageBody(encryptedMessage, identityPrivKey,
                              getPqcPrivateKey(ls, userId), useOldFormat)
  IN  IF ~Truthy(identityPrivKey) THEN Throw("Identity private key not found for user")
      ELSE IF r.ok THEN r ELSE Rethrow("Hybrid decryption failed", r)

\* decryptMessage on the storage ls (senderEphemeralPublicKey is not read: the
\* ephemeral key is taken from the message itself)
decryptMessage(ls, encryptedMessage, senderEphemeralPublicKey, userId, useOldFormat) ==
  LET identityPrivKey == getIdentityPrivateKey(ls, userId)
      recipientPqcPrivateKey == getPqcPrivateKey(ls, userId)
  IN  IF ~Truthy(identityPrivKey) THEN Throw("Identity private key not found for user")
      ELSE IF ~Truthy(recipientPqcPrivateKey)
      THEN Throw("PQC private key not found for user")
      ELSE LET r == decryptMessageBody(encryptedMessage, identityPrivKey,
                                       recipientPqcPrivateKey, useOldFormat)
           IN  IF r.ok THEN r ELSE Rethrow("Hybrid decryption failed", r)

(* ------------------- ChatWindow.tsx: the dual envelope ----------------- *)

\* JSON.stringify of an object, and JSON.parse (which throws on other strings)
JSON_stringify(obj) == [t |-> "json", v |-> obj]
JSON_parse(str) == IF str.t = "json" THEN Ok(str.v) ELSE Throw("Unexpected token")

\* the try block of sendMessage up to contentToSend: both encryptions, then
\* the JSON of the dual envelope; seeds are the random bytes of the two calls
DualEnvelopeContent(plaintext, recipientPublicKey, recipientPqcPublicKey, ownProfile, seeds) ==
  LET encryptedForRecipient == encryptMessage(plaintext, recipientPublicKey,
                                              recipientPqcPublicKey, seeds[1])
      encryptedForSelf == encryptMessage(plaintext, ownProfile.public_key,
                                         ownProfile.pqc_public_key, seeds[2])
  IN  IF ~encryptedForRecipient.ok THEN encryptedForRecipient
      ELSE IF ~encryptedForSelf.ok THEN encryptedForSelf
      ELSE Ok(JSON_stringify([forRecipient |-> encryptedForRecipient.val,
                              forSender |-> encryptedForSelf.val]))

(* ------------------------------- state --------------------------------- *)

VARIABLES
  localStorage,   \* per device: the browser's localStorage (the key names of crypto.ts)
  profiles,       \* the remote profiles table: per user, public_key and pqc_public_key
  usedSeeds,      \* the random bytes drawn so far by encryptMessage
  enc,            \* the last encryptMessage call: its arguments, its key, its result
  wire,           \* the envelope as it reaches the reader, and the field altered on the way
  dec,            \* the last decryptMessage call: its arguments, its key, its result
  dual,           \* the last dual envelope built by the send path
  accounts,       \* per user: "none", "user" (auth user only) or "profile" (with a profile row)
  session,        \* per device: the user of the auth session, or NoUser
  generated,      \* the number of identity key pairs generated so far
  auth,           \* per device: where handleAuth stands
  completed,      \* the devices whose last handleAuth call was a login that ran to its end
  chat,           \* per device: the state of ChatWindow and where sendMessage stands
  messages,       \* the remote messages table
  faults,         \* the number of failures so far
  tabs            \* per browsing context of device d1: its last key store call, and how far it is

keyVars == <<localStorage, profiles>>
cryptoVars == <<usedSeeds, enc, wire, dec, dual>>
appVars == <<accounts, session, generated, auth, completed, chat, messages, faults, tabs>>
vars == <<localStorage, profiles, usedSeeds, enc, wire, dec, dual, accounts, session,
          generated, auth, completed, chat, messages, faults, tabs>>

(* ------------------------ the application at rest ---------------------- *)

NoUser == "none"

\* handleAuth is not running
AuthIdle == [pc |-> "idle", mode |-> "none", user |-> NoUser, hasLocalKeys |-> FALSE,
             scenario |-> 0, seed |-> 0, upload |-> <<>>]

\* ChatWindow as mounted, sendMessage not running; ownMessagesCache maps the id
\* of a message (its place in the messages table) to its plaintext. messages is
\* the list on screen, conversationId the selected conversation, tempId the id
\* of the optimistic entry of the running send (0: none), and loads the
\* loadMessages calls that have not set the list yet
ChatIdle == [recipientPublicKey |-> Null, recipientPqcPublicKey |-> Null,
             isSending |-> FALSE, pc |-> "idle", plaintext |-> <<>>, content |-> Null,
             ownMessagesCache |-> <<>>, messages |-> <<>>, conversationId |-> "c1",
             tempId |-> 0, loads |-> {}]

\* the browsing contexts (tabs) of one device, which share its localStorage
Tabs == {"t1", "t2"}

\* a context that has made no key store call yet
TabIdle == [op |-> "none", pc |-> "idle", userId |-> NoUser,
            classicalPrivateKey |-> Null, pqcPrivateKey |-> 0]

(* ---------------- the crypto functions on bounded inputs --------------- *)

\* the random bytes (classical, pqc) of the n-th key generation: never the bytes
\* of an earlier draw
KeySeedAt(n) == <<((n - 1) % (GroupQ - 1)) + 1, (n % (GroupQ - 1)) + 1>>

KeySeeds == {KeySeedAt(n) : n \in 1..(MaxKeyGen + 1)}

\* the pairs of u1 and of u2, and another pair
KeyAssignments ==
  {<<KeySeedAt(1), KeySeedAt(2), KeySeedAt(3)>>,
   <<KeySeedAt(2), KeySeedAt(3), KeySeedAt(1)>>,
   <<KeySeedAt(3), KeySeedAt(1), KeySeedAt(2)>>}

\* the random bytes of the next encryptMessage call: never drawn before
NextSeed(used) == CHOOSE x \in Scalars : x \notin used /\ \A y \in Scalars \ used : x <= y

NoCall == [called |-> FALSE]
NoEnvelope == [ciphertext |-> Null, nonce |-> Null, ephemeralPublicKey |-> Null,
               kemCapsule |-> Null]

\* a variant that uploads the halves kept in the storage
PublishedKeysPrivate(keys) ==
  [public_key |-> keys.classical.privateKey,
   pqc_public_key |-> encodeBase64(keys.pqc.privateKey)]

\* the profile row that publishes the public halves of a key pair
PublishedKeys(keys) ==
  [public_key |-> keys.classical.publicKey,
   pqc_public_key |-> encodeBase64(keys.pqc.publicKey)]

NoKeys == [public_key |-> Null, pqc_public_key |-> Null]

\* the device the functions are exercised on
Here == "d1"

\* what storeHybridPrivateKeys and clearUserKeys can leave for user u, whose
\* published pair is mine: nothing, the pair, only its classical half (the
\* second setItem threw), another pair, or the classical half of the pair with
\* the post-quantum half of another (the second setItem threw on an overwrite)
StoreStates(ls, u, mine, other) ==
  LET full(k) == storeHybridPrivateKeys(ls, u, k.classical.privateKey,
                                        k.pqc.privateKey, 2).val
  IN  [none |-> ls,
       full |-> full(mine),
       classicalOnly |-> storeHybridPrivateKeys(ls, u, mine.classical.privateKey,
                                                mine.pqc.privateKey, 1).val,
       other |-> full(other),
       mixed |-> storeHybridPrivateKeys(full(other), u, mine.classical.privateKey,
                                        mine.pqc.privateKey, 1).val]

\* a storage in which deriveConversationKeyPair has stored the private key of a
\* pair for the first conversation
WithConversationKey(seed) ==
  [EmptyStorage EXCEPT ![getEphemeralPrivateKeyName("c1")] =
                         encodeBase64(box_keyPair(seed).secretKey)]

CryptoInit ==
  /\ \E a \in KeySeeds, b \in KeySeeds, c \in KeySeeds :
       /\ <<a, b, c>> \in KeyAssignments
       /\ profiles = [u \in Users |->
                        PublishedKeys(generateHybridKeyPair(IF u = "u1" THEN a ELSE b))]
       /\ \E s1 \in {"none", "full", "classicalOnly", "other", "mixed"},
             s2 \in {"none", "full"} :
            localStorage =
              [d \in Devices |->
                 IF d # Here THEN EmptyStorage
                 ELSE StoreStates(
                        StoreStates(WithConversationKey(c[1]), "u1",
                                    generateHybridKeyPair(a),
                                    generateHybridKeyPair(c))[s1],
                        "u2", generateHybridKeyPair(b), generateHybridKeyPair(c))[s2]]
  /\ usedSeeds = {}
  /\ enc = NoCall
  /\ wire = [envelope |-> NoEnvelope, altered |-> "none"]
  /\ dec = NoCall
  /\ dual = NoCall
  /\ accounts = [u \in Users |-> "profile"]
  /\ session = [d \in Devices |-> NoUser]
  /\ generated = 0
  /\ auth = [d \in Devices |-> AuthIdle]
  /\ completed = {}
  /\ chat = [d \in Devices |-> ChatIdle]
  /\ messages = <<>>
  /\ faults = 0
  /\ tabs = [t \in Tabs |-> TabIdle]

\* the arguments a caller may pass as the public keys of u: the published pair,
\* or the pair with one half null, "", not base64, or the two halves swapped
KeyArguments(u) ==
  LET c == profiles[u].public_key
      p == profiles[u].pqc_public_key
  IN  {<<c, p>>, <<Null, p>>, <<c, Null>>, <<EmptyStr, p>>, <<c, EmptyStr>>,
       <<Garbage, p>>, <<c, Garbage>>, <<p, c>>}

\* encryptMessage(message, classical, pqc)
CEncrypt(message, u, classical, pqc) ==
  LET seed == NextSeed(usedSeeds)
      r == encryptMessage(message, classical, pqc, seed)
      cU == decodeBase64(classical)
      pU == decodeBase64(pqc)
      k == IF cU.ok /\ pU.ok THEN EncryptFinalKey(cU.val, pU.val, seed) ELSE cU
  IN  /\ Cardinality(usedSeeds) < MaxEnc /\ ~dual.called
      /\ wire.altered = "none" /\ ~dec.called
      /\ usedSeeds' = usedSeeds \cup {seed}
      /\ enc' = [called |-> TRUE, message |-> message, to |-> u,
                 classical |-> classical, pqc |-> pqc,
                 finalKey |-> IF r.ok THEN k.val.finalKey ELSE -1, result |-> r]
      /\ wire' = [envelope |-> IF r.ok THEN r.val ELSE NoEnvelope, altered |-> "none"]
      /\ dec' = NoCall
      /\ UNCHANGED <<localStorage, profiles, dual>>
      /\ UNCHANGED appVars

\* the bytes x with bit number `bit` flipped (x of `bits` bits above `base`)
FlipBit(x, bit, base, bits) ==
  LET mask == IF bit = 0 THEN 1 ELSE IF bit = 1 THEN 2 ELSE IF bit = 2 THEN 4
              ELSE IF bit = 3 THEN 8 ELSE 16
  IN  base + XorBits(x - base, mask, bits)

\* one bit of the ciphertext flipped: in the authenticator (position 1) or the body
FlipCiphertext(bytes, pos, bit) ==
  [bytes EXCEPT ![pos] = IF pos = 1 THEN FlipBit(bytes[pos], bit, 0, 26)
                         ELSE FlipBit(bytes[pos], bit % 2, 0, 2)]

\* the envelope is altered on its way: one bit of one field is flipped
CTamper(field, pos, bit) ==
  LET e == wire.envelope
  IN  /\ enc.called /\ enc.result.ok /\ wire.altered = "none"
      /\ \/ /\ field = "ciphertext"
            /\ pos \in 1..Len(e.ciphertext.v)
            /\ wire' = [envelope |-> [e EXCEPT !.ciphertext =
                          encodeBase64(FlipCiphertext(e.ciphertext.v, pos, bit))],
                        altered |-> field]
         \/ /\ field = "nonce" /\ pos = 1
            /\ wire' = [envelope |-> [e EXCEPT !.nonce =
                          encodeBase64(FlipBit(e.nonce.v, bit, 500, 5))],
                        altered |-> field]
         \/ /\ field = "kemCapsule" /\ pos = 1
            /\ wire' = [envelope |-> [e EXCEPT !.kemCapsule =
                          encodeBase64(FlipBit(e.kemCapsule.v, bit, 400, 5))],
                        altered |-> field]
      /\ dec' = NoCall
      /\ UNCHANGED <<localStorage, profiles, usedSeeds, enc, dual>>
      /\ UNCHANGED appVars

\* the envelope a reader opens: the one on the wire, or one half of the dual
\* envelope (loadMessages opens forSender for an own message, forRecipient for
\* a message of the peer)
EnvelopeOf(src) ==
  IF src = "wire" THEN wire.envelope
  ELSE LET parsed == JSON_parse(dual.result.val).val
       IN  IF src = "forSender" THEN parsed.forSender ELSE parsed.forRecipient

\* a faulty call: a decryption that fails removes the keys it was tried with
CDecryptClearing(src, u, useOldFormat) ==
  LET e == EnvelopeOf(src)
      r == decryptMessage(localStorage[Here], e, e.ephemeralPublicKey, u, useOldFormat)
  IN  /\ IF src = "wire" THEN enc.called ELSE dual.called /\ dual.result.ok
      /\ dec' = [called |-> TRUE, src |-> src, user |-> u, useOldFormat |-> useOldFormat,
                 finalKey |-> -1, result |-> r]
      /\ localStorage' = [localStorage EXCEPT ![Here] =
                            IF r.ok THEN @ ELSE clearUserKeys(@, u)]
      /\ UNCHANGED <<profiles, usedSeeds, enc, wire, dual>>
      /\ UNCHANGED appVars

\* decryptMessage(envelope, envelope.ephemeralPublicKey, u, useOldFormat)
CDecrypt(src, u, useOldFormat) ==
  LET ls == localStorage[Here]
      e == EnvelopeOf(src)
      r == decryptMessage(ls, e, e.ephemeralPublicKey, u, useOldFormat)
      pq == getPqcPrivateKey(ls, u)
      id == decodeBase64(getIdentityPrivateKey(ls, u))
      k == IF hasUserKeys(ls, u) /\ id.ok
           THEN DecryptFinalKey(e.kemCapsule.v, e.ephemeralPublicKey.v, pq.v, id.val)
           ELSE Throw("no key")
  IN  /\ IF src = "wire" THEN enc.called ELSE dual.called /\ dual.result.ok
      /\ dec' = [called |-> TRUE, src |-> src, user |-> u, useOldFormat |-> useOldFormat,
                 finalKey |-> IF k.ok THEN k.val ELSE -1, result |-> r]
      /\ dec' # dec
      /\ UNCHANGED <<localStorage, profiles, usedSeeds, enc, wire, dual>>
      /\ UNCHANGED appVars

\* the send path's packaging of one typed message for the recipient and the sender
CPackage(newMessage, sender, recipient) ==
  LET plaintext == Trim(newMessage)
      seeds == <<NextSeed(usedSeeds), NextSeed(usedSeeds \cup {NextSeed(usedSeeds)})>>
      r == DualEnvelopeContent(plaintext, profiles[recipient].public_key,
                               profiles[recipient].pqc_public_key, profiles[sender],
                               seeds)
  IN  /\ usedSeeds = {} /\ ~dual.called
      /\ sender # recipient
      /\ plaintext # <<>>
      /\ usedSeeds' = {seeds[1], seeds[2]}
      /\ dual' = [called |-> TRUE, plaintext |-> plaintext, sender |-> sender,
                  recipient |-> recipient, result |-> r]
      /\ UNCHANGED <<localStorage, profiles, enc, wire, dec>>
      /\ UNCHANGED appVars

CryptoNext ==
  \/ \E m \in Strings, u \in Users :
       \E args \in KeyArguments(u) : CEncrypt(m, u, args[1], args[2])
  \/ \E field \in {"ciphertext", "nonce", "kemCapsule"}, pos \in 1..(2 * MaxLen + 1),
        bit \in 0..4 : CTamper(field, pos, bit)
  \/ \E src \in {"wire", "forRecipient", "forSender"}, u \in Users,
        useOldFormat \in BOOLEAN : CDecrypt(src, u, useOldFormat)
  \/ \E m \in Strings, sender \in Users, recipient \in Users :
       CPackage(m, sender, recipient)

SpecCrypto == CryptoInit /\ [][CryptoNext]_vars

(* ------------------------ Auth.tsx: handleAuth ------------------------- *)

\* line 92 to 94
hasDbKeys(profileData) ==
  Truthy(profileData.public_key) /\ Truthy(profileData.pqc_public_key)

\* a variant that keeps the keys of the profile when the device has none
loginScenarioKeepRemote(hasLocalKeys, dbKeys) ==
  IF ~hasLocalKeys /\ ~dbKeys THEN 1
  ELSE IF hasLocalKeys /\ ~dbKeys THEN 2
  ELSE 4

\* the scenario chosen at lines 98, 125, 161 and 196
loginScenario(hasLocalKeys, dbKeys) ==
  IF ~hasLocalKeys /\ ~dbKeys THEN 1
  ELSE IF hasLocalKeys /\ ~dbKeys THEN 2
  ELSE IF ~hasLocalKeys /\ dbKeys THEN 3
  ELSE 4

\* supabase ... .update(payload).eq("id", u): the row after the update
UpdatedRow(row, payload) ==
  [f \in {"public_key", "pqc_public_key"} |->
     IF f \in DOMAIN payload THEN payload[f] ELSE row[f]]

\* n more failures happen. A failure is injected only where the code gets to
\* see it: a request it does not make, or a write it does not reach, does not fail
Failures(n) == faults + n <= MaxFaults /\ faults' = faults + n

\* the failures in a response (ok) and in a storage write (quota)
Failed(ok) == IF ok THEN 0 ELSE 1
Refused(quota) == IF quota >= 2 THEN 0 ELSE 1

\* handleAuth settles on device d: in the catch ("failed"), at the early return
\* of line 233 ("taken") or at the end of the try block (a login "completed",
\* an account "created")
Settle(d, outcome) ==
  /\ auth' = [auth EXCEPT ![d] = AuthIdle]
  /\ completed' = IF outcome = "completed" THEN completed \cup {d} ELSE completed \ {d}

\* lines 62 to 78: signInWithPassword resolves; hasUserKeys is read
LoginSignIn(d, u, ok) ==
  /\ auth[d].pc = "idle" /\ session[d] = NoUser
  /\ Failures(Failed(ok))
  /\ ~ok => accounts[u] # "none"
  /\ UNCHANGED <<tabs, localStorage, profiles, cryptoVars, accounts, generated, chat, messages>>
  /\ IF ok /\ accounts[u] # "none"
     THEN /\ session' = [session EXCEPT ![d] = u]
          /\ auth' = [auth EXCEPT ![d] =
                        [AuthIdle EXCEPT !.pc = "fetchProfile", !.mode = "login",
                                         !.user = u,
                                         !.hasLocalKeys = hasUserKeys(localStorage[d], u)]]
          /\ completed' = completed \ {d}
     ELSE /\ UNCHANGED session
          /\ Settle(d, "failed")

\* lines 81 to 200, up to the update of the profile: the profile is fetched,
\* the scenario chosen, and in scenarios 1 and 3 a key pair is generated and its
\* private halves are stored (quota: the setItem calls the storage accepts)
LoginProfile(d, ok, quota) ==
  LET a == auth[d]
      u == a.user
      scenario == loginScenario(a.hasLocalKeys, hasDbKeys(profiles[u]))
      keys == generateHybridKeyPair(KeySeedAt(generated + 1))
      st == storeHybridPrivateKeys(localStorage[d], u, keys.classical.privateKey,
                                   keys.pqc.privateKey, quota)
      classicalPriv == getIdentityPrivateKey(localStorage[d], u)
      pqcPriv == getPqcPrivateKey(localStorage[d], u)
      classicalPrivUint8 == decodeBase64(classicalPriv)
      derived == IF classicalPrivUint8.ok
                 THEN box_keyPair_fromSecretKey(classicalPrivUint8.val)
                 ELSE classicalPrivUint8
  IN  /\ a.pc = "fetchProfile" /\ a.mode = "login"
      /\ Failures(Failed(ok) + Refused(quota))
      /\ ~ok => accounts[u] = "profile"
      /\ quota < 2 => ok /\ accounts[u] = "profile" /\ scenario \in {1, 3}
      /\ UNCHANGED <<tabs, profiles, cryptoVars, accounts, session, chat, messages>>
      /\ IF ~ok \/ accounts[u] # "profile"
         THEN /\ UNCHANGED <<localStorage, generated>>
              /\ Settle(d, "failed")
         ELSE IF scenario \in {1, 3}
         THEN /\ generated < MaxKeyGen
              /\ generated' = generated + 1
              /\ localStorage' = [localStorage EXCEPT ![d] = st.val]
              /\ IF st.ok
                 THEN /\ auth' = [auth EXCEPT ![d] =
                           [a EXCEPT !.pc = "update", !.scenario = scenario,
                                     !.seed = generated + 1,
                                     !.upload = PublishedKeys(keys)]]
                      /\ UNCHANGED completed
                 ELSE Settle(d, "failed")
         ELSE /\ UNCHANGED <<localStorage, generated>>
              /\ IF scenario = 2 /\ Truthy(classicalPriv) /\ Truthy(pqcPriv)
                 THEN IF derived.ok
                      THEN /\ auth' = [auth EXCEPT ![d] =
                                [a EXCEPT !.pc = "update", !.scenario = scenario,
                                          !.upload = [public_key |->
                                             encodeBase64(derived.val.publicKey)]]]
                           /\ UNCHANGED completed
                      ELSE Settle(d, "failed")
                 ELSE Settle(d, "completed")

\* lines 111 to 124, 146 to 160 and 177 to 195: the update of the profile
\* resolves; an error ends scenarios 1 and 3, and is only logged in scenario 2
LoginUpdate(d, ok) ==
  LET a == auth[d]
      u == a.user
  IN  /\ a.pc = "update" /\ a.mode = "login"
      /\ Failures(Failed(ok))
      /\ UNCHANGED <<tabs, localStorage, cryptoVars, accounts, session, generated, chat,
                     messages>>
      /\ profiles' = IF ok THEN [profiles EXCEPT ![u] = UpdatedRow(profiles[u], a.upload)]
                     ELSE profiles
      /\ Settle(d, IF ok \/ a.scenario = 2 THEN "completed" ELSE "failed")

\* lines 203 to 273: the username is checked, a key pair is generated, signUp
\* resolves and the private halves are stored. fault: the request that fails;
\* confirmed: signUp opens a session; trigger: the profile row is created by
\* the database
SignUp(d, u, fault, confirmed, trigger, quota) ==
  LET keys == generateHybridKeyPair(KeySeedAt(generated + 1))
      st == storeHybridPrivateKeys(localStorage[d], u, keys.classical.privateKey,
                                   keys.pqc.privateKey, quota)
  IN  /\ auth[d].pc = "idle" /\ session[d] = NoUser
      /\ Failures(Failed(fault = "none") + Failed(trigger) + Refused(quota))
      /\ fault = "signUp" => accounts[u] = "none"
      /\ (fault # "none" \/ accounts[u] # "none") => confirmed /\ trigger /\ quota = 2
      /\ UNCHANGED <<tabs, profiles, cryptoVars, chat, messages>>
      /\ IF fault = "check"
         THEN /\ UNCHANGED <<localStorage, accounts, session, generated>>
              /\ Settle(d, "failed")
         ELSE IF accounts[u] = "profile"
         THEN /\ UNCHANGED <<localStorage, accounts, session, generated>>
              /\ Settle(d, "taken")
         ELSE /\ generated < MaxKeyGen
              /\ generated' = generated + 1
              /\ IF fault = "signUp" \/ accounts[u] # "none"
                 THEN /\ UNCHANGED <<localStorage, accounts, session>>
                      /\ Settle(d, "failed")
                 ELSE /\ accounts' = [accounts EXCEPT ![u] =
                                        IF trigger THEN "profile" ELSE "user"]
                      /\ session' = [session EXCEPT ![d] = IF confirmed THEN u ELSE NoUser]
                      /\ localStorage' = [localStorage EXCEPT ![d] = st.val]
                      /\ IF st.ok
                         THEN /\ auth' = [auth EXCEPT ![d] =
                                   [AuthIdle EXCEPT !.pc = "signUpProfile",
                                                    !.mode = "signup", !.user = u,
                                                    !.seed = generated + 1,
                                                    !.upload = PublishedKeys(keys)]]
                              /\ UNCHANGED completed
                         ELSE Settle(d, "failed")

\* lines 276 to 334: the profile row is looked up, then inserted with the
\* public halves (lines 289 to 296) or updated with them (lines 318 to 324)
SignUpProfile(d, checkOk, writeOk) ==
  LET a == auth[d]
      u == a.user
      checkError == ~checkOk \/ accounts[u] # "profile"
      insertError == ~writeOk \/ accounts[u] = "profile"
      written == IF checkError THEN ~insertError ELSE writeOk
  IN  /\ a.pc = "signUpProfile"
      /\ Failures(Failed(checkOk) + Failed(writeOk))
      /\ ~checkOk => accounts[u] = "profile"
      /\ ~writeOk => ~(checkError /\ accounts[u] = "profile")
      /\ UNCHANGED <<tabs, localStorage, cryptoVars, session, generated, chat, messages>>
      /\ accounts' = IF written THEN [accounts EXCEPT ![u] = "profile"] ELSE accounts
      /\ profiles' = IF written THEN [profiles EXCEPT ![u] = UpdatedRow(profiles[u], a.upload)]
                     ELSE profiles
      /\ Settle(d, IF written THEN "created" ELSE "failed")

(* ----------------------- Index.tsx: the signed-in page ----------------- *)

\* listUsersWithKeys: the users with an identity_private_key_ item
listUsersWithKeys(ls) == {u \in Users : ls[getIdentityPrivateKeyName(u)] # Null}

\* a faulty sign-out: the keys are removed whatever the answer
signOutStorageAlways(ls, user, keepKeys) ==
  IF user # NoUser THEN clearUserKeys(ls, user) ELSE ls

\* the storage after handleSignOut: if (!keepKeys && user) clearUserKeys(user.id)
signOutStorage(ls, user, keepKeys) ==
  IF ~keepKeys /\ user # NoUser THEN clearUserKeys(ls, user) ELSE ls

\* the storage after handleRemoveAccount: if (confirm) clearUserKeys(userId)
removeAccountStorage(ls, userId, confirm) ==
  IF confirm THEN clearUserKeys(ls, userId) ELSE ls

\* handleSignOut (keepKeys is the answer to window.confirm); ChatWindow unmounts
handleSignOut(d, keepKeys) ==
  /\ session[d] # NoUser /\ auth[d].pc = "idle"
  /\ localStorage' = [localStorage EXCEPT ![d] = signOutStorage(@, session[d], keepKeys)]
  /\ session' = [session EXCEPT ![d] = NoUser]
  /\ chat' = [chat EXCEPT ![d] = ChatIdle]
  /\ completed' = completed \ {d}
  /\ UNCHANGED <<tabs, profiles, cryptoVars, accounts, generated, auth,
                 messages, faults>>

\* handleRemoveAccount for a saved account other than the current one (the
\* button is shown for those only); confirm is the answer to window.confirm
handleRemoveAccount(d, userId, confirm) ==
  /\ session[d] # NoUser /\ auth[d].pc = "idle"
  /\ userId \in listUsersWithKeys(localStorage[d]) /\ userId # session[d]
  /\ localStorage' = [localStorage EXCEPT ![d] = removeAccountStorage(@, userId, confirm)]
  /\ UNCHANGED <<tabs, profiles, cryptoVars, accounts, session, generated, auth, completed, chat, messages, faults>>

(* ------------------- ChatWindow.tsx: sending a message ----------------- *)

\* the users who sign in on a device: u1 on both; the peer u2, who has a device
\* of their own, on d2 as well
DeviceUsers(d) == IF d = "d1" THEN {"u1"} ELSE Users

\* the devices on which the conversation is opened, and what is typed there:
\* white space only, and a multi-byte character followed by white space
ChatDevices == {"d1"}
NewMessages == {<<0>>, <<2, 0>>}

\* the other participant of the conversation
Peer(u) == CHOOSE v \in Users : v # u

\* x || null
OrNull(x) == IF Truthy(x) THEN x ELSE Null

\* loadRecipientPublicKey, when the query returns the other participant (an
\* error, or no participant, leaves the state as it is)
loadRecipientPublicKey(d) ==
  LET profile == profiles[Peer(session[d])]
  IN  /\ session[d] # NoUser /\ auth[d].pc = "idle"
      /\ accounts[Peer(session[d])] = "profile"
      /\ chat' = [chat EXCEPT ![d].recipientPublicKey = OrNull(profile.public_key),
                              ![d].recipientPqcPublicKey = OrNull(profile.pqc_public_key)]
      /\ UNCHANGED <<tabs, localStorage, profiles, cryptoVars, accounts, session, generated,
                     auth, completed, messages, faults>>

\* prev.filter((m) => m.id !== tempId)
WithoutTemp(prev, tempId) == SelectSeq(prev, LAMBDA m : m.id # tempId)

\* prev.map((m) => m.id === tempId ? {...m, id: messageId, isPending: false} : m)
TempStored(prev, tempId, messageId) ==
  [i \in DOMAIN prev |->
     IF prev[i].id = tempId THEN [prev[i] EXCEPT !.id = messageId, !.isPending = FALSE]
     ELSE prev[i]]

\* the id of an optimistic entry: below zero, and the id of no entry of the list
NewTempId(prev) ==
  LET used == {prev[i].id : i \in DOMAIN prev}
  IN  -(CHOOSE k \in 1..(Len(prev) + 1) :
          -k \notin used /\ \A j \in 1..(k - 1) : -j \in used)

\* the entry of the list that sendMessage adds before the message is stored
optimisticMessage(tempId, currentUserId) ==
  [id |-> tempId, sender_id |-> currentUserId, isPending |-> TRUE]

\* a send that does not look at isSending
SendSubmitUnlocked(d, newMessage) ==
  /\ session[d] # NoUser /\ auth[d].pc = "idle"
  /\ Trim(newMessage) # <<>>
  /\ chat' = [chat EXCEPT ![d].pc = "ownProfile", ![d].isSending = TRUE,
                          ![d].plaintext = Trim(newMessage),
                          ![d].tempId = NewTempId(chat[d].messages),
                          ![d].messages =
                            Append(@, optimisticMessage(NewTempId(chat[d].messages),
                                                        session[d]))]
  /\ UNCHANGED <<tabs, localStorage, profiles, cryptoVars, accounts, session, generated,
                 auth, completed, messages, faults>>

\* sendMessage up to the fetch of the own profile: the optimistic entry is added
SendSubmit(d, newMessage) ==
  /\ session[d] # NoUser /\ auth[d].pc = "idle" /\ chat[d].pc = "idle"
  /\ Trim(newMessage) # <<>> /\ ~chat[d].isSending
  /\ chat' = [chat EXCEPT ![d].pc = "ownProfile", ![d].isSending = TRUE,
                          ![d].plaintext = Trim(newMessage),
                          ![d].tempId = NewTempId(chat[d].messages),
                          ![d].messages =
                            Append(@, optimisticMessage(NewTempId(chat[d].messages),
                                                        session[d]))]
  /\ UNCHANGED <<tabs, localStorage, profiles, cryptoVars, accounts, session, generated,
                 auth, completed, messages, faults>>

\* a faulty send: when the second encryption fails, the first envelope is sent alone
sendMessageContentPartial(plaintext, recipientPublicKey, recipientPqcPublicKey, ownProfile, seeds) ==
  LET encryptedForRecipient == encryptMessage(plaintext, recipientPublicKey,
                                              recipientPqcPublicKey, seeds[1])
      r == DualEnvelopeContent(plaintext, recipientPublicKey, recipientPqcPublicKey,
                               ownProfile, seeds)
  IN  IF r.ok THEN [outcome |-> "insert", content |-> r.val]
      ELSE IF encryptedForRecipient.ok
      THEN [outcome |-> "insert",
            content |-> JSON_stringify([forRecipient |-> encryptedForRecipient.val])]
      ELSE [outcome |-> "encryptFailed", content |-> Null]

\* sendMessage from the own profile to contentToSend: what the send does next
\* ("insert", with the content to insert) or why it ends
sendMessageContent(plaintext, recipientPublicKey, recipientPqcPublicKey, ownProfile, seeds) ==
  IF ~Truthy(ownProfile.public_key) \/ ~Truthy(ownProfile.pqc_public_key)
  THEN [outcome |-> "noOwnKeys", content |-> Null]
  ELSE IF ~Truthy(recipientPublicKey) \/ ~Truthy(recipientPqcPublicKey)
  THEN [outcome |-> "noRecipientKeys", content |-> Null]
  ELSE LET r == DualEnvelopeContent(plaintext, recipientPublicKey,
                                    recipientPqcPublicKey, ownProfile, seeds)
       IN  IF r.ok THEN [outcome |-> "insert", content |-> r.val]
           ELSE [outcome |-> "encryptFailed", content |-> Null]

\* a send that ends without a stored message and keeps its optimistic entry
SendSettleKeeping(d) ==
  chat' = [chat EXCEPT ![d].pc = "idle", ![d].isSending = FALSE,
                       ![d].plaintext = <<>>, ![d].content = Null, ![d].tempId = 0]

\* sendMessage ends without a stored message: the optimistic entry is taken
\* out of the list and isSending is reset
SendSettle(d) ==
  chat' = [chat EXCEPT ![d].pc = "idle", ![d].isSending = FALSE,
                       ![d].plaintext = <<>>, ![d].content = Null, ![d].tempId = 0,
                       ![d].messages = WithoutTemp(@, chat[d].tempId)]

\* the own profile is fetched (ok: without error), the keys are checked and the
\* message is encrypted twice. fault: the encryption that finds no random bytes
SendEncrypt(d, ok, fault) ==
  LET c == chat[d]
      me == session[d]
      ownProfile == IF ok /\ accounts[me] = "profile" THEN profiles[me] ELSE NoKeys
      s1 == NextSeed(usedSeeds)
      s2 == NextSeed(usedSeeds \cup {s1})
      seeds == <<IF fault = "first" THEN 0 ELSE s1, IF fault = "second" THEN 0 ELSE s2>>
      r == sendMessageContent(c.plaintext, c.recipientPublicKey,
                              c.recipientPqcPublicKey, ownProfile, seeds)
  IN  /\ c.pc = "ownProfile"
      /\ Cardinality(usedSeeds) < 2 * MaxSends
      /\ Failures(Failed(ok) + Failed(fault = "none"))
      /\ ~ok => accounts[me] = "profile"
      /\ fault # "none" =>
           sendMessageContent(c.plaintext, c.recipientPublicKey, c.recipientPqcPublicKey,
                              ownProfile, <<s1, s2>>).outcome = "insert"
      /\ usedSeeds' = IF r.outcome \in {"insert", "encryptFailed"}
                      THEN usedSeeds \cup {s1, s2} ELSE usedSeeds
      /\ UNCHANGED <<tabs, localStorage, profiles, enc, wire, dec, dual, accounts, session,
                     generated, auth, completed, messages>>
      /\ IF r.outcome = "insert"
         THEN chat' = [chat EXCEPT ![d].pc = "insert", ![d].content = r.content]
         ELSE SendSettle(d)

\* ownMessagesCache.current.set(messageId, plaintext)
cacheSet(cache, messageId, plaintext) == (messageId :> plaintext) @@ cache

\* the insert into messages resolves; the plaintext of a stored message is
\* cached and its optimistic entry takes the id of the row
SendInsert(d, ok) ==
  LET c == chat[d]
  IN  /\ c.pc = "insert"
      /\ Failures(Failed(ok))
      /\ messages' = IF ok THEN Append(messages, [sender_id |-> session[d],
                                                  content |-> c.content])
                     ELSE messages
      /\ UNCHANGED <<tabs, localStorage, profiles, cryptoVars, accounts, session, generated,
                     auth, completed>>
      /\ chat' = [chat EXCEPT ![d].pc = "idle", ![d].isSending = FALSE,
                              ![d].plaintext = <<>>, ![d].content = Null,
                              ![d].tempId = 0,
                              ![d].ownMessagesCache =
                                IF ok THEN cacheSet(@, Len(messages) + 1, c.plaintext)
                                ELSE @,
                              ![d].messages =
                                IF ok THEN TempStored(@, c.tempId, Len(messages) + 1)
                                ELSE WithoutTemp(@, c.tempId)]

(* --------------------------- the application --------------------------- *)

\* the key pair of the peer, generated on a device of their own
PeerKeys == generateHybridKeyPair(KeySeedAt(MaxKeyGen + 1))

\* the profile row of the peer
PeerProfile ==
  [public_key |-> PeerKeys.classical.publicKey,
   pqc_public_key |-> encodeBase64(PeerKeys.pqc.publicKey)]

\* the peer u2 is registered and has published keys; u1 has no account yet, and
\* neither device holds a key
Init ==
  /\ localStorage = [d \in Devices |-> EmptyStorage]
  /\ profiles = [u \in Users |-> IF u = "u2" THEN PeerProfile ELSE NoKeys]
  /\ usedSeeds = {}
  /\ enc = NoCall
  /\ wire = [envelope |-> NoEnvelope, altered |-> "none"]
  /\ dec = NoCall
  /\ dual = NoCall
  /\ accounts = [u \in Users |-> IF u = "u2" THEN "profile" ELSE "none"]
  /\ session = [d \in Devices |-> NoUser]
  /\ generated = 0
  /\ auth = [d \in Devices |-> AuthIdle]
  /\ completed = {}
  /\ chat = [d \in Devices |-> ChatIdle]
  /\ messages = <<>>
  /\ faults = 0
  /\ tabs = [t \in Tabs |-> TabIdle]

Next ==
  \/ \E d \in Devices, ok \in BOOLEAN : \E u \in DeviceUsers(d) : LoginSignIn(d, u, ok)
  \/ \E d \in Devices, ok \in BOOLEAN, quota \in 0..2 : LoginProfile(d, ok, quota)
  \/ \E d \in Devices, ok \in BOOLEAN : LoginUpdate(d, ok)
  \/ \E d \in Devices, fault \in {"none", "check", "signUp"},
        confirmed \in BOOLEAN, trigger \in BOOLEAN, quota \in 0..2 :
       \E u \in DeviceUsers(d) : SignUp(d, u, fault, confirmed, trigger, quota)
  \/ \E d \in Devices, checkOk \in BOOLEAN, writeOk \in BOOLEAN :
       SignUpProfile(d, checkOk, writeOk)
  \/ \E d \in Devices, keepKeys \in BOOLEAN : handleSignOut(d, keepKeys)
  \/ \E d \in Devices, u \in Users, confirm \in BOOLEAN : handleRemoveAccount(d, u, confirm)
  \/ \E d \in ChatDevices : loadRecipientPublicKey(d)
  \/ \E d \in ChatDevices, m \in NewMessages : SendSubmit(d, m)
  \/ \E d \in ChatDevices, ok \in BOOLEAN, fault \in {"none", "first", "second"} :
       SendEncrypt(d, ok, fault)
  \/ \E d \in ChatDevices, ok \in BOOLEAN : SendInsert(d, ok)

Spec == Init /\ [][Next]_vars

(* ------------------------------- claims -------------------------------- *)

\* the storage ls holds, for user u, the private halves of the key pair whose
\* public halves are classical and pqc
HoldsPrivateHalves(ls, u, classical, pqc) ==
  \E k \in KeySeeds :
    LET keys == generateHybridKeyPair(k)
    IN  /\ PublishedKeys(keys) = [public_key |-> classical, pqc_public_key |-> pqc]
        /\ getIdentityPrivateKey(ls, u) = keys.classical.privateKey
        /\ ls[getPqcIdentityPrivateKeyName(u)] = encodeBase64(keys.pqc.privateKey)

\* the last encryptMessage call was made with the public halves of a key pair
\* whose private halves the storage holds for the addressee
EncryptedToStoredPair ==
  /\ enc.called
  /\ HoldsPrivateHalves(localStorage[Here], enc.to, enc.classical, enc.pqc)

\* the last decryptMessage call opened the unaltered envelope for the addressee
OpenedByAddressee ==
  /\ dec.called /\ dec.src = "wire" /\ dec.user = enc.to /\ wire.altered = "none"

\* C1, as stated: for every plaintext, the empty string included, and every key
\* pair whose private halves are stored, encryptMessage yields an envelope and
\* decryptMessage of it returns the plaintext.
C1_RoundTripEveryPlaintext ==
  EncryptedToStoredPair =>
    /\ enc.result.ok
    /\ OpenedByAddressee => dec.result = Ok(enc.message)

\* C1, amended: for every plaintext but the empty string (which encryptMessage
\* rejects as a missing parameter), and every key pair whose private halves are
\* stored, encryptMessage yields an envelope and decryptMessage of it returns
\* the plaintext.
C1_RoundTripNonEmpty ==
  (EncryptedToStoredPair /\ enc.message # <<>>) =>
    /\ enc.result.ok
    /\ OpenedByAddressee => dec.result = Ok(enc.message)

\* C1's case: a plaintext with a multi-byte character came back from a round trip
C1_Witness ==
  /\ EncryptedToStoredPair /\ OpenedByAddressee
  /\ enc.message = <<2>> /\ dec.result = Ok(<<2>>)

\* C2: the finalKey computed in decryptMessage for an unaltered envelope, with
\* the private halves of the pair it was encrypted to, is the finalKey computed
\* in encryptMessage.
C2_FinalKeySymmetry ==
  (EncryptedToStoredPair /\ enc.result.ok /\ OpenedByAddressee) =>
    /\ enc.finalKey \in 0..31
    /\ dec.finalKey = enc.finalKey

\* C2's case: both sides computed a key, from two secrets that are not trivial
C2_Witness ==
  /\ EncryptedToStoredPair /\ OpenedByAddressee
  /\ dec.finalKey = enc.finalKey /\ enc.finalKey >= 16

\* C3: decryptMessage fails on an envelope of encryptMessage in which one bit
\* of the bytes of ciphertext, nonce or kemCapsule was changed, with or without
\* the fallback to the old format, when the addressee reads it with the private
\* halves that open the unaltered envelope.
C3_TamperDetected ==
  (/\ EncryptedToStoredPair /\ dec.called /\ dec.src = "wire" /\ dec.user = enc.to
   /\ wire.altered # "none")
    => ~dec.result.ok

\* C3's case: the addressee, holding the right keys, was given an envelope with
\* an altered capsule and decryptMessage ran with the fallback enabled
C3_Witness ==
  /\ EncryptedToStoredPair /\ dec.called /\ dec.src = "wire" /\ dec.user = enc.to
  /\ wire.altered = "kemCapsule" /\ ~dec.useOldFormat /\ ~dec.result.ok

\* the two halves of the last dual envelope
DualParsed == JSON_parse(dual.result.val).val

\* The two envelopes of one packaging carry different ephemeral public keys,
\* capsules and nonces, and each opens to the plaintext with the private halves
\* of the pair it was encrypted to.
DualEnvelopeOfMatchingKeys ==
  (dual.called /\ dual.result.ok) =>
    /\ DualParsed.forRecipient.ephemeralPublicKey # DualParsed.forSender.ephemeralPublicKey
    /\ DualParsed.forRecipient.kemCapsule # DualParsed.forSender.kemCapsule
    /\ DualParsed.forRecipient.nonce # DualParsed.forSender.nonce
    /\ \A role \in {"forRecipient", "forSender"} :
         LET reader == IF role = "forSender" THEN dual.sender ELSE dual.recipient
         IN  (/\ dec.called /\ dec.src = role /\ dec.user = reader
              /\ HoldsPrivateHalves(localStorage[Here], reader,
                                    profiles[reader].public_key,
                                    profiles[reader].pqc_public_key))
               => dec.result = Ok(dual.plaintext)

\* C5: when hasUserKeys(u) is false, decryptMessage for u throws a key-not-found
\* error for every envelope, before the try block that decapsulates.
C5_MissingKey ==
  (dec.called /\ ~hasUserKeys(localStorage[Here], dec.user)) =>
    /\ ~dec.result.ok
    /\ dec.result.err \in {<<"Identity private key not found for user">>,
                           <<"PQC private key not found for user">>}

\* C5's case: the reader has only the classical half, the other user has both
\* halves, and the envelope is a well-formed one
C5_Witness ==
  /\ dec.called /\ enc.called /\ enc.result.ok
  /\ Truthy(getIdentityPrivateKey(localStorage[Here], dec.user))
  /\ ~hasUserKeys(localStorage[Here], dec.user)
  /\ \E v \in Users \ {dec.user} : hasUserKeys(localStorage[Here], v)
  /\ dec.result.err = <<"PQC private key not found for user">>

\* the key pair of the n-th generation
KeysAt(n) == generateHybridKeyPair(KeySeedAt(n))

\* the storage ls holds, for user u, the private halves of keys
StoredBy(ls, u, keys) ==
  /\ getIdentityPrivateKey(ls, u) = keys.classical.privateKey
  /\ ls[getPqcIdentityPrivateKeyName(u)] = encodeBase64(keys.pqc.privateKey)

\* device d is signed in as a user whose login ran to its end, and holds
\* private halves for that user
LoggedInWithKeys(d) ==
  /\ d \in completed /\ session[d] # NoUser /\ auth[d].pc = "idle"
  /\ hasUserKeys(localStorage[d], session[d])

\* C6: whenever a device has completed login for a user and holds private halves
\* for that user, the public keys in the user's profile are the counterparts of
\* the private halves stored on that device.
C6_PublicPrivateCorrespondence ==
  \A d \in Devices :
    LoggedInWithKeys(d) =>
      HoldsPrivateHalves(localStorage[d], session[d], profiles[session[d]].public_key,
                         profiles[session[d]].pqc_public_key)

\* the login of handleAuth on device d runs to its end in this step
LoginCompletes(d) ==
  /\ auth[d].mode = "login" /\ auth[d].pc # "idle"
  /\ auth'[d].pc = "idle" /\ d \in completed'

\* C7: when the login of handleAuth completes without error, whatever the
\* scenario, hasUserKeys is true for the user and the profile holds both
\* public_key and pqc_public_key.
C7_RecoverableKeyScenarios ==
  [][\A d \in Devices :
       LoginCompletes(d) =>
         /\ hasUserKeys(localStorage'[d], auth[d].user)
         /\ hasDbKeys(profiles'[auth[d].user])]_vars

\* a step of the login of handleAuth on device d, after signInWithPassword
LoginStep(d) == auth[d].mode = "login" /\ auth'[d] # auth[d]

\* the step is the one that fetches the profile, and the fetch succeeded: the
\* login went on to its scenario
Fetched(d) ==
  /\ auth[d].pc = "fetchProfile"
  /\ auth'[d].pc = "update" \/ d \in completed' \/ generated' # generated

\* C8: once the profile is fetched, the login generates a key pair exactly when
\* hasUserKeys was false, with or without keys in the profile; the private
\* halves of the new pair are then stored, and when the login completes its
\* public halves are the profile's. A login that found a complete local pair
\* generates nothing and writes nothing to the storage.
C8_KeyLifecycleOnLogin ==
  [][\A d \in Devices :
       LoginStep(d) =>
         LET u == auth[d].user
         IN  /\ generated' \in {generated, generated + 1}
             /\ Fetched(d) => (generated' = generated + 1 <=> ~auth[d].hasLocalKeys)
             /\ (generated' # generated /\ auth'[d].pc = "update")
                  => StoredBy(localStorage'[d], u, KeysAt(generated'))
             /\ (auth[d].pc = "update" /\ auth[d].seed # 0 /\ d \in completed')
                  => /\ StoredBy(localStorage'[d], u, KeysAt(auth[d].seed))
                     /\ profiles'[u] = PublishedKeys(KeysAt(auth[d].seed))
             /\ auth[d].hasLocalKeys
                  => localStorage'[d] = localStorage[d] /\ generated' = generated]_vars

\* C8's case: a device completed a login that rotated the keys of a user: it
\* holds the second pair, the profile publishes it, and the other device still
\* holds the first
C8_Witness ==
  \E d \in Devices, other \in Devices, u \in Users :
    /\ d # other /\ d \in completed /\ session[d] = u /\ generated = 2
    /\ StoredBy(localStorage[d], u, KeysAt(2))
    /\ profiles[u] = PublishedKeys(KeysAt(2))
    /\ StoredBy(localStorage[other], u, KeysAt(1))

\* an envelope with its four fields
IsEnvelope(e) ==
  /\ DOMAIN e = {"ciphertext", "nonce", "ephemeralPublicKey", "kemCapsule"}
  /\ \A f \in DOMAIN e : e[f].t = "b64"
  /\ Len(e.ciphertext.v) >= 2
  /\ IsNonceBytes(e.nonce.v) /\ IsPublicKeyBytes(e.ephemeralPublicKey.v)
  /\ IsCapsuleBytes(e.kemCapsule.v)

\* the JSON of a dual envelope with both halves
CompleteDualEnvelope(content) ==
  /\ content.t = "json"
  /\ DOMAIN content.v = {"forRecipient", "forSender"}
  /\ \A role \in DOMAIN content.v : IsEnvelope(content.v[role])

\* the rows of messages hold complete dual envelopes, and so does a send about
\* to insert
StoredContentComplete ==
  /\ \A i \in 1..Len(messages) : CompleteDualEnvelope(messages[i].content)
  /\ \A d \in Devices : chat[d].pc = "insert" => CompleteDualEnvelope(chat[d].content)

\* a row is written only by a send that got past both encryptions; a send that
\* ends before the insert writes nothing
WrittenByInsertOnly ==
  /\ messages' # messages =>
       \E d \in Devices :
         /\ chat[d].pc = "insert"
         /\ messages' = Append(messages, [sender_id |-> session[d],
                                          content |-> chat[d].content])
  /\ \A d \in Devices :
       (chat[d].pc = "ownProfile" /\ chat'[d].pc = "idle") => messages' = messages

\* C9: every content that sendMessage writes to messages is the JSON of a dual
\* envelope with forRecipient and forSender, never the plaintext or one half;
\* a send whose encryption fails or that lacks a public key writes nothing.
C9_SendAtomicity == []StoredContentComplete /\ [][WrittenByInsertOnly]_vars

\* C9's case: a send wrote a row, with a multi-byte plaintext
C9_Witness ==
  /\ Len(messages) >= 1 /\ CompleteDualEnvelope(messages[1].content)
  /\ \E d \in Devices : chat[d].pc = "idle" /\ ~chat[d].isSending

\* the private halves generated so far, and those of the peer, as stored
PrivateKeyValues ==
  UNION {{KeysAt(n).classical.privateKey, encodeBase64(KeysAt(n).pqc.privateKey)} :
           n \in 1..generated \cup {MaxKeyGen + 1}}

\* the key-sized values inside a content (the ciphertext is not key-sized)
ContentValues(content) ==
  IF content.t # "json" THEN {content}
  ELSE UNION {{content.v[role][f] : f \in DOMAIN content.v[role] \ {"ciphertext"}} :
                role \in DOMAIN content.v}

\* every value in the remote stores, or in a write on its way to them
RemoteValues ==
  UNION {{profiles[u].public_key, profiles[u].pqc_public_key} : u \in Users}
    \cup UNION {{auth[d].upload[f] : f \in DOMAIN auth[d].upload} : d \in Devices}
    \cup UNION {ContentValues(messages[i].content) : i \in 1..Len(messages)}
    \cup UNION {ContentValues(chat[d].content) : d \in Devices}

\* C10: no value written to the profiles or to messages, by sign-up, login,
\* send or sign-out, is a classical or post-quantum private key or holds one.
C10_PrivateKeysStayLocal == RemoteValues \cap PrivateKeyValues = {}

\* C10's case: both stores were written: a profile publishes a generated pair
\* and a message is stored, while a device holds private halves
C10_Witness ==
  /\ Len(messages) >= 1
  /\ \E u \in Users, n \in 1..generated : profiles[u] = PublishedKeys(KeysAt(n))
  /\ \E d \in Devices, u \in Users : hasUserKeys(localStorage[d], u)

\* a storage that holds, for user u, the private halves of keys and nothing else
StorageOf(u, keys) ==
  storeHybridPrivateKeys(EmptyStorage, u, keys.classical.privateKey,
                         keys.pqc.privateKey, 2).val

\* the send of device d stores its row in this step
SendStores(d) == chat[d].pc = "insert" /\ Len(messages') = Len(messages) + 1

\* C4: for every message sent by sendMessage, forRecipient and forSender carry
\* different ephemeral public keys, capsules and nonces; forRecipient opens to
\* the plaintext with the private halves of the recipient's keys, and forSender
\* opens to the plaintext with the keys of the sender, those that the sending
\* device holds for them.
C4_DualEnvelopeOfSend ==
  [][\A d \in ChatDevices :
       SendStores(d) =>
         LET sent == JSON_parse(messages'[Len(messages')].content).val
             me == session[d]
         IN  /\ sent.forRecipient.ephemeralPublicKey # sent.forSender.ephemeralPublicKey
             /\ sent.forRecipient.kemCapsule # sent.forSender.kemCapsule
             /\ sent.forRecipient.nonce # sent.forSender.nonce
             /\ \A n \in 1..(MaxKeyGen + 1) :
                  PublishedKeys(KeysAt(n))
                      = [public_key |-> chat[d].recipientPublicKey,
                         pqc_public_key |-> chat[d].recipientPqcPublicKey]
                    => decryptMessage(StorageOf(Peer(me), KeysAt(n)), sent.forRecipient,
                                      sent.forRecipient.ephemeralPublicKey, Peer(me), FALSE)
                         = Ok(chat[d].plaintext)
             /\ hasUserKeys(localStorage[d], me)
                  => decryptMessage(localStorage[d], sent.forSender,
                                    sent.forSender.ephemeralPublicKey, me, FALSE)
                       = Ok(chat[d].plaintext)]_vars

\* the envelope e carries the ephemeral public key and the nonce made from the
\* random bytes s
MadeFrom(e, s) ==
  /\ e.ephemeralPublicKey = encodeBase64(box_keyPair(s).publicKey)
  /\ e.nonce = encodeBase64(randomNonce(s))

\* the envelope e shares neither its ephemeral key pair nor its nonce with an
\* envelope made from the random bytes in `used`
FreshAgainst(e, used) ==
  \A s \in used :
    /\ e.ephemeralPublicKey # encodeBase64(box_keyPair(s).publicKey)
    /\ e.nonce # encodeBase64(randomNonce(s))

\* every envelope produced so far was made from random bytes drawn so far
EnvelopesFromDrawnBytes ==
  /\ (enc.called /\ enc.result.ok) => \E s \in usedSeeds : MadeFrom(enc.result.val, s)
  /\ (dual.called /\ dual.result.ok) =>
       \A role \in {"forRecipient", "forSender"} :
         \E s \in usedSeeds : MadeFrom(DualParsed[role], s)

\* an envelope produced in this step shares no ephemeral key pair and no nonce
\* with an earlier one, nor with the other envelope of the same send
ProducesFresh ==
  /\ (enc' # enc /\ enc'.called /\ enc'.result.ok)
       => FreshAgainst(enc'.result.val, usedSeeds)
  /\ (dual' # dual /\ dual'.called /\ dual'.result.ok) =>
       LET sent == JSON_parse(dual'.result.val).val
       IN  /\ FreshAgainst(sent.forRecipient, usedSeeds)
           /\ FreshAgainst(sent.forSender, usedSeeds)
           /\ sent.forRecipient.ephemeralPublicKey # sent.forSender.ephemeralPublicKey
           /\ sent.forRecipient.nonce # sent.forSender.nonce

\* C11: over any sequence of encryptMessage calls, no two envelopes share an
\* ephemeral key pair and no nonce is used twice (so none is used twice under
\* one finalKey), the random source never repeating its bytes.
C11_FreshMaterial == []EnvelopesFromDrawnBytes /\ [][ProducesFresh]_vars

\* C11's case: a second encryptMessage call, after one that drew random bytes,
\* produced an envelope
C11_Witness ==
  /\ enc.called /\ enc.result.ok /\ Cardinality(usedSeeds) >= 2
  /\ \E s \in usedSeeds : MadeFrom(enc.result.val, s) /\ s # NextSeed({})

(* ------------- C15: the order of the symmetric constructions ----------- *)

\* the last decryptMessage call reached step 4: both private halves were found,
\* every field decoded and the key derivation did not throw
ReachedStep4 ==
  /\ dec.called /\ dec.finalKey # -1
  /\ \A f \in {"ciphertext", "nonce", "ephemeralPublicKey", "kemCapsule"} :
       decodeBase64(EnvelopeOf(dec.src)[f]).ok

\* the calls step 4 made for the last decryptMessage call
AttemptsOfLastCall ==
  SymmetricOpenAttempts(decodeBase64(EnvelopeOf(dec.src).ciphertext).val,
                        decodeBase64(EnvelopeOf(dec.src).nonce).val,
                        dec.finalKey, dec.useOldFormat)

Opened(attempt) == attempt.decrypted.ok /\ attempt.decrypted.val # NullBytes

AuthenticationError == <<"Hybrid decryption failed",
                         "Decryption failed - invalid ciphertext or keys">>

\* C15: in its default mode decryptMessage tries secretbox.open first and
\* box.open.after, on the same ciphertext, nonce and finalKey, only if the
\* first returned null; the first call that opens the ciphertext is the last
\* call and its plaintext is the result; the call fails with the
\* authentication error only when both returned null. With useOldFormat only
\* box.open.after is called.
C15_FallbackOrder ==
  ReachedStep4 =>
    LET a == AttemptsOfLastCall
        e == EnvelopeOf(dec.src)
        last == a[Len(a)]
    IN  /\ dec.useOldFormat => Len(a) = 1 /\ a[1].by = "box.open.after"
        /\ ~dec.useOldFormat =>
             /\ a[1].by = "secretbox.open"
             /\ a[1].decrypted = secretbox_open(decodeBase64(e.ciphertext).val,
                                                decodeBase64(e.nonce).val, dec.finalKey)
             /\ Len(a) \in {1, 2}
             /\ Len(a) = 2 <=> (a[1].decrypted.ok /\ a[1].decrypted.val = NullBytes)
             /\ Len(a) = 2 =>
                  /\ a[2].by = "box.open.after"
                  /\ a[2].decrypted = box_open_after(decodeBase64(e.ciphertext).val,
                                                     decodeBase64(e.nonce).val,
                                                     dec.finalKey)
             /\ (~dec.result.ok /\ dec.result.err = AuthenticationError) => Len(a) = 2
        /\ \A i \in 1..Len(a) : Opened(a[i]) => i = Len(a)
        /\ Opened(last) => dec.result = encodeUTF8(last.decrypted.val)
        /\ (~dec.result.ok /\ dec.result.err = AuthenticationError)
             <=> \A i \in 1..Len(a) : a[i].decrypted.ok /\ a[i].decrypted.val = NullBytes

\* a default-mode call on an altered ciphertext: both constructions were tried
\* and the call failed with the authentication error
C15_Witness ==
  /\ ReachedStep4 /\ ~dec.useOldFormat /\ wire.altered = "ciphertext"
  /\ Len(AttemptsOfLastCall) = 2
  /\ ~dec.result.ok /\ dec.result.err = AuthenticationError

\* a default-mode call that the first construction opened
C15_WitnessFirst ==
  /\ ReachedStep4 /\ ~dec.useOldFormat /\ dec.result.ok
  /\ Len(AttemptsOfLastCall) = 1 /\ Opened(AttemptsOfLastCall[1])

(* ------------------ C16: the kinds of decryption errors ---------------- *)

\* the post-quantum private half that decryptMessage reads for its last call
\* is not the counterpart of the key the envelope was encapsulated to
WrongPqcPrivateKey ==
  \E s \in Scalars :
    /\ enc.pqc = encodeBase64(MlKem_generateKeyPair(s)[1])
    /\ getPqcPrivateKey(localStorage[Here], dec.user).v # MlKem_generateKeyPair(s)[2]

\* the last decryptMessage call found both private halves, and its
\* decapsulation cannot yield the sender's secret: the capsule was altered on
\* the way, or the stored post-quantum half is a wrong one
DecapsulationCannotSucceed ==
  /\ dec.called /\ dec.src = "wire" /\ enc.called /\ enc.result.ok
  /\ hasUserKeys(localStorage[Here], dec.user)
  /\ wire.altered \in {"none", "kemCapsule"}
  /\ wire.altered = "kemCapsule" \/ WrongPqcPrivateKey

KeyNotFoundErrors ==
  {<<"Identity private key not found for user">>, <<"PQC private key not found for user">>}

\* the errors MlKem768.decap throws, as decryptMessage passes them on
DecapsulationErrors ==
  {<<"Hybrid decryption failed", "invalid ciphertext size">>,
   <<"Hybrid decryption failed", "invalid decapsulation key">>}

\* C16: a decryptMessage call whose decapsulation fails (altered capsule or
\* wrong post-quantum private key) ends in a decapsulation error, which is
\* neither the authentication error of the symmetric open nor a key-not-found
\* error.
C16_DistinctErrorKinds ==
  DecapsulationCannotSucceed =>
    /\ ~dec.result.ok
    /\ dec.result.err \in DecapsulationErrors
    /\ dec.result.err # AuthenticationError
    /\ dec.result.err \notin KeyNotFoundErrors

(* ------------- crypto.ts: the key store, call by call ------------------ *)

\* a faulty removeItem: the item stays
removeItemKept(ls, name) == ls

\* localStorage.setItem and localStorage.removeItem
setItem(ls, name, value) == [ls EXCEPT ![name] = value]
removeItem(ls, name) == [ls EXCEPT ![name] = Null]

\* what a caller passes to storeHybridPrivateKeys: the private halves of a
\* generated pair, or an empty string as the classical half
StoreArguments ==
  {<<KeysAt(n).classical.privateKey, KeysAt(n).pqc.privateKey>> : n \in 1..MaxKeyGen}
    \cup {<<EmptyStr, KeysAt(1).pqc.privateKey>>}

\* a context calls storeHybridPrivateKeys: the first setItem (it throws when
\* the storage does not accept the write, and the call ends)
StoreFirst(t, userId, classicalPrivateKey, pqcPrivateKey, accepted) ==
  /\ tabs[t].pc # "second"
  /\ tabs' = [tabs EXCEPT ![t] =
                [op |-> "storeHybridPrivateKeys",
                 pc |-> IF accepted THEN "second" ELSE "threw",
                 userId |-> userId, classicalPrivateKey |-> classicalPrivateKey,
                 pqcPrivateKey |-> pqcPrivateKey]]
  /\ localStorage' = [localStorage EXCEPT ![Here] =
                        IF accepted
                        THEN setItem(@, getIdentityPrivateKeyName(userId),
                                     classicalPrivateKey)
                        ELSE @]
  /\ UNCHANGED <<profiles, cryptoVars, accounts, session, generated, auth, completed,
                 chat, messages, faults>>

\* the second setItem of the call, and its return (or its throw)
StoreSecond(t, accepted) ==
  /\ tabs[t].op = "storeHybridPrivateKeys" /\ tabs[t].pc = "second"
  /\ tabs' = [tabs EXCEPT ![t].pc = IF accepted THEN "returned" ELSE "threw"]
  /\ localStorage' = [localStorage EXCEPT ![Here] =
                        IF accepted
                        THEN setItem(@, getPqcIdentityPrivateKeyName(tabs[t].userId),
                                     encodeBase64(tabs[t].pqcPrivateKey))
                        ELSE @]
  /\ UNCHANGED <<profiles, cryptoVars, accounts, session, generated, auth, completed,
                 chat, messages, faults>>

\* a context calls clearUserKeys: the first removeItem
ClearFirst(t, userId) ==
  /\ tabs[t].pc # "second"
  /\ tabs' = [tabs EXCEPT ![t] = [TabIdle EXCEPT !.op = "clearUserKeys",
                                                 !.pc = "second", !.userId = userId]]
  /\ localStorage' = [localStorage EXCEPT ![Here] =
                        removeItem(@, getIdentityPrivateKeyName(userId))]
  /\ UNCHANGED <<profiles, cryptoVars, accounts, session, generated, auth, completed,
                 chat, messages, faults>>

\* the second removeItem of the call, and its return
ClearSecond(t) ==
  /\ tabs[t].op = "clearUserKeys" /\ tabs[t].pc = "second"
  /\ tabs' = [tabs EXCEPT ![t].pc = "returned"]
  /\ localStorage' = [localStorage EXCEPT ![Here] =
                        removeItem(@, getPqcIdentityPrivateKeyName(tabs[t].userId))]
  /\ UNCHANGED <<profiles, cryptoVars, accounts, session, generated, auth, completed,
                 chat, messages, faults>>

StoreNext ==
  \/ \E t \in Tabs, u \in Users, args \in StoreArguments, accepted \in BOOLEAN :
       StoreFirst(t, u, args[1], args[2], accepted)
  \/ \E t \in Tabs, accepted \in BOOLEAN : StoreSecond(t, accepted)
  \/ \E t \in Tabs, u \in Users : ClearFirst(t, u)
  \/ \E t \in Tabs : ClearSecond(t)

\* the key store of one device used by two contexts, from an empty storage
SpecStore == Init /\ [][StoreNext]_vars

(* --------------------- C17 to C20: the key store ----------------------- *)

\* the storage has an item of that name (getItem does not return null)
HasItem(ls, name) == ls[name] # Null

BothItems(ls, u) ==
  HasItem(ls, getIdentityPrivateKeyName(u)) /\ HasItem(ls, getPqcIdentityPrivateKeyName(u))

SampleEnvelopes ==
  {NoEnvelope,
   encryptMessage(<<1>>, PublishedKeys(KeysAt(1)).public_key,
                  PublishedKeys(KeysAt(1)).pqc_public_key, 1).val}

\* without the keys of u, decryptMessage for u fails with a key-not-found error
NoKeysNoDecryption ==
  \A u \in Users :
    ~hasUserKeys(localStorage[Here], u) =>
      \A e \in SampleEnvelopes, useOldFormat \in BOOLEAN :
        LET r == decryptMessage(localStorage[Here], e, e.ephemeralPublicKey, u,
                                useOldFormat)
        IN  ~r.ok /\ r.err \in KeyNotFoundErrors

\* this step is the return of a clearUserKeys(u) call
ClearReturns(u) ==
  \E t \in Tabs :
    /\ tabs[t].op = "clearUserKeys" /\ tabs[t].userId = u
    /\ tabs[t].pc = "second" /\ tabs'[t].pc = "returned"

\* this step is a setItem of a storeHybridPrivateKeys(u, ...) call
StoreWrites(u) ==
  \E t \in Tabs :
    /\ tabs'[t] # tabs[t]
    /\ tabs'[t].op = "storeHybridPrivateKeys" /\ tabs'[t].userId = u
    /\ tabs'[t].pc \in {"second", "returned"}

ClearedUntilStored ==
  \A u \in Users :
    /\ ClearReturns(u) => ~hasUserKeys(localStorage'[Here], u)
    /\ (~hasUserKeys(localStorage[Here], u) /\ hasUserKeys(localStorage'[Here], u))
         => StoreWrites(u)

\* C18: when clearUserKeys(u) returns, hasUserKeys(u) is false; it becomes true
\* again only by a write of a storeHybridPrivateKeys(u, ...) call; and as long
\* as it is false every decryptMessage for u fails with a key-not-found error.
C18_ClearedUntilStored == []NoKeysNoDecryption /\ [][ClearedUntilStored]_vars

\* a storeHybridPrivateKeys(u, ...) call and a clearUserKeys(u) call have both
\* returned, u has no keys, and the other user still has theirs
C18_Witness ==
  \E u \in Users, v \in Users, t \in Tabs, s \in Tabs :
    /\ u # v /\ t # s
    /\ tabs[t].op = "clearUserKeys" /\ tabs[t].userId = u /\ tabs[t].pc = "returned"
    /\ tabs[s].op = "storeHybridPrivateKeys" /\ tabs[s].userId = u
    /\ tabs[s].pc = "returned"
    /\ ~hasUserKeys(localStorage[Here], u)
    /\ hasUserKeys(localStorage[Here], v)

\* C19: from every store state, clearUserKeys(u) applied twice leaves what it
\* leaves applied once, and applied to a store without items of u it leaves
\* the store as it is.
C19_ClearIdempotent ==
  \A u \in Users :
    LET ls == localStorage[Here]
        once == clearUserKeys(ls, u)
    IN  /\ clearUserKeys(once, u) = once
        /\ ~BothItems(once, u) /\ ~hasUserKeys(once, u)
        /\ (/\ ~HasItem(ls, getIdentityPrivateKeyName(u))
            /\ ~HasItem(ls, getPqcIdentityPrivateKeyName(u))) => once = ls

\* one user has both halves stored (a clear removes two items), the other has
\* none after a clearUserKeys call that returned
C19_Witness ==
  \E u \in Users, v \in Users, t \in Tabs :
    /\ hasUserKeys(localStorage[Here], u)
    /\ tabs[t].op = "clearUserKeys" /\ tabs[t].userId = v /\ tabs[t].pc = "returned"
    /\ ~HasItem(localStorage[Here], getIdentityPrivateKeyName(v))
    /\ ~HasItem(localStorage[Here], getPqcIdentityPrivateKeyName(v))

\* the two items of u
EntryOf(ls, u) == <<ls[getIdentityPrivateKeyName(u)], ls[getPqcIdentityPrivateKeyName(u)]>>

\* what a call leaves for its user when it is the only one: both halves of a
\* store call, nothing after a clear
EntryWrittenBy(call) ==
  IF call.op = "storeHybridPrivateKeys"
  THEN <<call.classicalPrivateKey, encodeBase64(call.pqcPrivateKey)>>
  ELSE <<Null, Null>>

\* no call is between its two writes
NoCallRunning == \A t \in Tabs : tabs[t].pc # "second"

\* the entry of every user is that of one call: nothing, or both halves of one
\* store call
WholeEntries ==
  \A u \in Users :
    \/ EntryOf(localStorage[Here], u) = <<Null, Null>>
    \/ \E args \in StoreArguments :
         EntryOf(localStorage[Here], u) = <<args[1], encodeBase64(args[2])>>

\* a call makes its last write, and no call is left running: the entry of its
\* user is what this call wrote
LastWriterWins ==
  \A t \in Tabs :
    (/\ tabs[t].pc = "second" /\ tabs'[t].pc = "returned"
     /\ \A s \in Tabs : tabs'[s].pc # "second")
      => EntryOf(localStorage'[Here], tabs[t].userId) = EntryWrittenBy(tabs[t])

\* C20: once the store and clear calls for a user have ended, also calls of
\* several contexts, the entry of the user is what the call that wrote last
\* wrote: both halves of that store call, or nothing after a clear, never
\* halves of different calls.
C20_LastWriterWins == [](NoCallRunning => WholeEntries) /\ [][LastWriterWins]_vars

(* ------------------ ChatWindow.tsx: loading the messages --------------- *)

\* a string that is no JSON and no base64: the text of a message
Text(str) == [t |-> "text", v |-> str]

\* the fixed strings loadMessages shows instead of a plaintext (no typed
\* message of the model equals one of them)
Placeholder(str) == [t |-> "placeholder", v |-> str]
OldKeysPlaceholder == Placeholder("[Old message - encrypted with previous keys]")
MissingKeysPlaceholder == Placeholder("[Missing keys]")
YourEncryptedPlaceholder == Placeholder("[Your encrypted message]")
CannotDecryptPlaceholder == Placeholder("[Cannot decrypt]")
MissingKeysCannotDecryptPlaceholder == Placeholder("[Missing keys - cannot decrypt]")

\* obj.f of a parsed JSON object: Null when the object has no such property
Field(obj, f) == IF f \in DOMAIN obj THEN obj[f] ELSE Null

\* ownMessagesCache.current.get(msg.id), tested for truthiness
cacheHit(cache, id) == id \in DOMAIN cache /\ cache[id] # <<>>

\* try { decryptedContent = decrypted } catch { decryptedContent = placeholder }
DecryptedOr(decrypted, placeholder) ==
  IF decrypted.ok THEN Ok(Text(decrypted.val)) ELSE Ok(placeholder)

\* a faulty branch for an own message: on a cache miss the envelope of the
\* recipient is opened
ownDecryptedContentForRecipient(ls, cache, msg, id, currentUserId) ==
  IF cacheHit(cache, id) THEN Ok(Text(cache[id]))
  ELSE LET parsed == JSON_parse(msg.content)
       IN  IF ~parsed.ok THEN Ok(msg.content)
           ELSE IF Field(parsed.val, "forRecipient") # Null
           THEN DecryptedOr(decryptMessage(ls, parsed.val.forRecipient,
                                           parsed.val.forRecipient.ephemeralPublicKey,
                                           currentUserId, FALSE),
                            OldKeysPlaceholder)
           ELSE Ok(msg.content)

\* the branch of the map callback for an own message (lines 200 to 248): the
\* decryptedContent it sets; every throw is caught inside the branch
ownDecryptedContent(ls, cache, msg, id, currentUserId) ==
  IF cacheHit(cache, id) THEN Ok(Text(cache[id]))
  ELSE LET parsed == JSON_parse(msg.content)
       IN  IF ~parsed.ok THEN Ok(msg.content)
           ELSE IF Field(parsed.val, "forSender") # Null
           THEN IF /\ Truthy(getIdentityPrivateKey(ls, currentUserId))
                   /\ Truthy(getPqcPrivateKey(ls, currentUserId))
                THEN DecryptedOr(decryptMessage(ls, parsed.val.forSender,
                                                parsed.val.forSender.ephemeralPublicKey,
                                                currentUserId, FALSE),
                                 OldKeysPlaceholder)
                ELSE Ok(MissingKeysPlaceholder)
           ELSE IF Field(parsed.val, "ciphertext") # Null
           THEN Ok(YourEncryptedPlaceholder)
           ELSE Ok(msg.content)

\* decryptedContent = decrypted, outside every try block
DecryptedOrThrown(decrypted) ==
  IF decrypted.ok THEN Ok(Text(decrypted.val)) ELSE decrypted

\* a faulty branch for a message of the peer: a failed decryption is not caught
peerDecryptedContentUncaught(ls, msg, currentUserId) ==
  LET parsed == JSON_parse(msg.content)
  IN  IF ~parsed.ok THEN parsed
      ELSE LET encryptedData == IF Field(parsed.val, "forRecipient") # Null
                                THEN parsed.val.forRecipient ELSE parsed.val
           IN  DecryptedOrThrown(decryptMessage(ls, encryptedData,
                                                encryptedData.ephemeralPublicKey,
                                                currentUserId, FALSE))

\* the branch of the map callback for a message of the peer (lines 250 to 286)
peerDecryptedContent(ls, msg, currentUserId) ==
  IF /\ Truthy(getIdentityPrivateKey(ls, currentUserId))
     /\ Truthy(getPqcPrivateKey(ls, currentUserId))
  THEN LET parsed == JSON_parse(msg.content)
       IN  IF ~parsed.ok THEN Ok(CannotDecryptPlaceholder)
           ELSE LET encryptedData == IF Field(parsed.val, "forRecipient") # Null
                                     THEN parsed.val.forRecipient ELSE parsed.val
                IN  DecryptedOr(decryptMessage(ls, encryptedData,
                                               encryptedData.ephemeralPublicKey,
                                               currentUserId, FALSE),
                                CannotDecryptPlaceholder)
  ELSE Ok(MissingKeysCannotDecryptPlaceholder)

\* the entry of the row msg with the decryptedContent a branch has set
EntryWith(msg, id, r) ==
  IF ~r.ok THEN r
  ELSE Ok([id |-> id, sender_id |-> msg.sender_id, content |-> msg.content,
           decryptedContent |-> r.val])

\* the map callback of loadMessages for the row msg, whose id is its place
decryptedMessage(ls, cache, msg, id, currentUserId) ==
  EntryWith(msg, id, IF msg.sender_id = currentUserId
                     THEN ownDecryptedContent(ls, cache, msg, id, currentUserId)
                     ELSE peerDecryptedContent(ls, msg, currentUserId))

\* Promise.all: the results of the callbacks in the order of the rows, or the
\* rejection that ends loadMessages in its outer catch
PromiseAll(results) ==
  IF \E i \in DOMAIN results : ~results[i].ok
  THEN Throw("Unexpected error in loadMessages")
  ELSE Ok([i \in DOMAIN results |-> results[i].val])

\* the list loadMessages hands to setMessages for the rows in their stored order
decryptedMessages(ls, cache, rows, currentUserId) ==
  PromiseAll([i \in 1..Len(rows) |->
                decryptedMessage(ls, cache, rows[i], i, currentUserId)])

\* the cache with the texts of `decrypted` (row id to decryptedContent) set
cacheWith(cache, decrypted) ==
  [i \in DOMAIN cache \cup {j \in DOMAIN decrypted : decrypted[j].t = "text"} |->
     IF i \in DOMAIN decrypted /\ decrypted[i].t = "text" THEN decrypted[i].v
     ELSE cache[i]]

\* the cache after loadMessages: the own messages it decrypted from forSender
\* are added
cacheAfterLoad(ls, cache, rows, currentUserId) ==
  cacheWith(cache,
            [i \in {j \in 1..Len(rows) :
                      /\ rows[j].sender_id = currentUserId
                      /\ ~cacheHit(cache, j)
                      /\ JSON_parse(rows[j].content).ok
                      /\ Field(JSON_parse(rows[j].content).val, "forSender") # Null} |->
               ownDecryptedContent(ls, cache, rows[i], i, currentUserId).val])

\* the conversation of u1 with the peer is open on the device; u1 holds no key,
\* the pair they published, a part of it, or another pair
LoadInit ==
  /\ \E s1 \in {"none", "full", "classicalOnly", "other", "mixed"} :
       localStorage =
         [d \in Devices |->
            IF d # Here THEN EmptyStorage
            ELSE StoreStates(EmptyStorage, "u1", KeysAt(1), KeysAt(2))[s1]]
  /\ profiles = [u \in Users |-> IF u = "u2" THEN PeerProfile ELSE PublishedKeys(KeysAt(1))]
  /\ usedSeeds = {}
  /\ enc = NoCall
  /\ wire = [envelope |-> NoEnvelope, altered |-> "none"]
  /\ dec = NoCall
  /\ dual = NoCall
  /\ accounts = [u \in Users |-> "profile"]
  /\ session = [d \in Devices |-> IF d = Here THEN "u1" ELSE NoUser]
  /\ generated = 0
  /\ auth = [d \in Devices |-> AuthIdle]
  /\ completed = {}
  /\ chat = [d \in Devices |-> ChatIdle]
  /\ messages = <<>>
  /\ faults = 0
  /\ tabs = [t \in Tabs |-> TabIdle]

\* the text of the rows that other clients wrote
ArrivingText == <<1>>

\* the random bytes of the client that writes a row after n rows
ArrivingSeeds(n) == <<GroupQ - 1 - 2 * n, GroupQ - 2 - 2 * n>>

\* the public keys another client holds for user u: the published pair, or
\* (previous) the pair u published before
KeysHeldFor(u, previous) ==
  IF u = "u2" THEN PeerProfile
  ELSE IF previous THEN PublishedKeys(KeysAt(2)) ELSE PublishedKeys(KeysAt(1))

\* the content of a row written by another client for `sender`: a dual
\* envelope, a single envelope for the recipient, or the text itself
ArrivingContent(sender, kind, previous, seeds) ==
  LET to == KeysHeldFor(Peer(sender), previous)
  IN  IF kind = "dual"
      THEN DualEnvelopeContent(ArrivingText, to.public_key, to.pqc_public_key,
                               KeysHeldFor(sender, FALSE), seeds).val
      ELSE IF kind = "envelope"
      THEN JSON_stringify(encryptMessage(ArrivingText, to.public_key,
                                         to.pqc_public_key, seeds[1]).val)
      ELSE Text(ArrivingText)

\* a row of the conversation is inserted by another client: by the peer, or by
\* a client of the user that wrote single envelopes or texts
Arrive(sender, kind, previous) ==
  /\ Len(messages) < MaxRows
  /\ kind = "dual" => sender # session[Here]
  /\ previous => (kind # "text" /\ sender # session[Here])
  /\ messages' = Append(messages,
                        [sender_id |-> sender,
                         content |-> ArrivingContent(sender, kind, previous,
                                                     ArrivingSeeds(Len(messages)))])
  /\ UNCHANGED <<tabs, localStorage, profiles, cryptoVars, accounts, session, generated,
                 auth, completed, chat, faults>>

\* the entries of the list for the first n rows of the table: the id of a row
\* is its place in the table
loadedMessages(n) ==
  [i \in 1..n |-> [id |-> i, sender_id |-> messages[i].sender_id, isPending |-> FALSE]]

\* loadMessages on device d (ok: the query for the rows returns them): the
\* list is replaced by the rows it read
loadMessages(d, ok) ==
  /\ session[d] # NoUser /\ auth[d].pc = "idle"
  /\ Failures(Failed(ok))
  /\ chat' = [chat EXCEPT ![d].ownMessagesCache =
                IF ok THEN cacheAfterLoad(localStorage[d], @, messages, session[d])
                ELSE @,
                          ![d].messages =
                IF ok THEN loadedMessages(Len(messages)) ELSE @]
  /\ UNCHANGED <<tabs, localStorage, profiles, cryptoVars, accounts, session, generated,
                 auth, completed, messages>>

\* the effect that opens the conversation empties the cache; the loadMessages
\* and loadRecipientPublicKey calls it starts settle later
OpenConversation(d) ==
  /\ session[d] # NoUser /\ auth[d].pc = "idle"
  /\ chat' = [chat EXCEPT ![d].ownMessagesCache = <<>>]
  /\ UNCHANGED <<tabs, localStorage, profiles, cryptoVars, accounts, session, generated,
                 auth, completed, messages, faults>>

LoadNext ==
  \/ \E sender \in Users, kind \in {"dual", "envelope", "text"}, previous \in BOOLEAN :
       Arrive(sender, kind, previous)
  \/ \E ok \in BOOLEAN : loadMessages(Here, ok)
  \/ OpenConversation(Here)
  \/ loadRecipientPublicKey(Here)
  \/ \E m \in NewMessages : SendSubmit(Here, m)
  \/ \E ok \in BOOLEAN, fault \in {"none", "first", "second"} : SendEncrypt(Here, ok, fault)
  \/ \E ok \in BOOLEAN : SendInsert(Here, ok)

\* one device with the conversation open: rows arrive, messages are sent, and
\* the list is loaded
SpecLoad == LoadInit /\ [][LoadNext]_vars

(* ------------------ C12 to C14: the list of loadMessages --------------- *)

\* the user of the open conversation, their storage and their cache
Reader == session[Here]
ReaderStorage == localStorage[Here]
ReaderCache == chat[Here].ownMessagesCache

\* the list loadMessages shows for the rows, with a given cache
ShownWith(cache, rows) == decryptedMessages(ReaderStorage, cache, rows, Reader)

\* the envelope of a row that is meant for the reader: forSender of an own
\* dual envelope, forRecipient of a dual envelope of the peer, or the single
\* envelope of the peer; NoEnvelope when the row has none
EnvelopeForReader(row) ==
  LET parsed == JSON_parse(row.content)
  IN  IF ~parsed.ok THEN NoEnvelope
      ELSE IF row.sender_id = Reader THEN
             IF "forSender" \in DOMAIN parsed.val THEN parsed.val.forSender ELSE NoEnvelope
      ELSE IF "forRecipient" \in DOMAIN parsed.val THEN parsed.val.forRecipient
      ELSE parsed.val

\* decryptMessage of the reader on that envelope
OpenedForReader(row) ==
  decryptMessage(ReaderStorage, EnvelopeForReader(row),
                 EnvelopeForReader(row).ephemeralPublicKey, Reader, FALSE)

UndecryptablePlaceholders ==
  {OldKeysPlaceholder, MissingKeysPlaceholder, CannotDecryptPlaceholder,
   MissingKeysCannotDecryptPlaceholder}

\* a row whose envelopes cannot be opened by anyone
UnreadableRow(sender) ==
  [sender_id |-> sender,
   content |-> JSON_stringify([forRecipient |-> NoEnvelope, forSender |-> NoEnvelope])]

\* C12: loadMessages over the N rows of the conversation yields N entries in
\* the stored order; a row whose envelope for the reader does not decrypt is
\* shown as a placeholder, a row whose envelope decrypts is shown with its
\* plaintext, and the entry of a row stays the same when another row is
\* replaced by one that cannot be decrypted.
C12_PerMessageIsolation ==
  LET shown == ShownWith(ReaderCache, messages)
      N == Len(messages)
  IN  /\ shown.ok /\ Len(shown.val) = N
      /\ \A i \in 1..N :
           /\ shown.val[i].id = i
           /\ shown.val[i].sender_id = messages[i].sender_id
           /\ shown.val[i].content = messages[i].content
           /\ (EnvelopeForReader(messages[i]) # NoEnvelope /\ ~cacheHit(ReaderCache, i)) =>
                IF OpenedForReader(messages[i]).ok
                THEN shown.val[i].decryptedContent = Text(OpenedForReader(messages[i]).val)
                ELSE shown.val[i].decryptedContent \in UndecryptablePlaceholders
           /\ \A j \in (1..N) \ {i} :
                LET others == [messages EXCEPT ![j] = UnreadableRow(messages[j].sender_id)]
                    cache == [k \in DOMAIN ReaderCache \ {j} |-> ReaderCache[k]]
                    changed == ShownWith(cache, others)
                IN  /\ changed.ok
                    /\ changed.val[i] = shown.val[i]
                    /\ changed.val[j].decryptedContent \in UndecryptablePlaceholders

\* two rows of the peer: the envelope of one does not decrypt with the keys of
\* the reader and is shown as a placeholder, the other is shown with its plaintext
C12_Witness ==
  /\ Len(messages) >= 2
  /\ \E i \in 1..Len(messages), j \in 1..Len(messages) :
       /\ i < j
       /\ messages[i].sender_id # Reader /\ messages[j].sender_id # Reader
       /\ EnvelopeForReader(messages[i]) # NoEnvelope
       /\ ~OpenedForReader(messages[i]).ok
       /\ ShownWith(ReaderCache, messages).val[i].decryptedContent
            = CannotDecryptPlaceholder
       /\ OpenedForReader(messages[j]).ok
       /\ ShownWith(ReaderCache, messages).val[j].decryptedContent = Text(ArrivingText)

\* row i is an own message stored as a dual envelope
OwnDualRow(i) ==
  /\ messages[i].sender_id = Reader
  /\ JSON_parse(messages[i].content).ok
  /\ "forSender" \in DOMAIN JSON_parse(messages[i].content).val

\* C13: for an own message stored as a dual envelope that is in
\* ownMessagesCache, when the storage holds the private halves of the keys the
\* sender had published at send time, loadMessages with an empty cache shows
\* the same plaintext (by decrypting forSender) as it shows with the cache,
\* and caches that plaintext again.
C13_CacheOnlyOptimisation ==
  \A i \in 1..Len(messages) :
    (/\ OwnDualRow(i) /\ cacheHit(ReaderCache, i)
     /\ HoldsPrivateHalves(ReaderStorage, Reader, profiles[Reader].public_key,
                            profiles[Reader].pqc_public_key))
      => /\ ShownWith(ReaderCache, messages).val[i].decryptedContent
              = Text(ReaderCache[i])
         /\ ShownWith(<<>>, messages).val[i].decryptedContent = Text(ReaderCache[i])
         /\ cacheAfterLoad(ReaderStorage, <<>>, messages, Reader)[i] = ReaderCache[i]

\* an own dual envelope after a row of the peer, cached, with the keys it was
\* sent with in the storage
C13_Witness ==
  \E i \in 2..Len(messages) :
    /\ OwnDualRow(i) /\ cacheHit(ReaderCache, i)
    /\ messages[1].sender_id # Reader
    /\ HoldsPrivateHalves(ReaderStorage, Reader, profiles[Reader].public_key,
                           profiles[Reader].pqc_public_key)
    /\ ShownWith(<<>>, messages).val[i].decryptedContent = Text(<<2>>)

\* row i has no forSender: its content is no JSON, or a single envelope
LegacyText(i) == ~JSON_parse(messages[i].content).ok
LegacyEnvelope(i) ==
  /\ JSON_parse(messages[i].content).ok
  /\ "forSender" \notin DOMAIN JSON_parse(messages[i].content).val
  /\ "ciphertext" \in DOMAIN JSON_parse(messages[i].content).val

\* C14: a row without forSender stays readable, be it of the peer or an own
\* one: a content that is no JSON is shown as it is, and a content that is a
\* single envelope is opened with decryptMessage and shown with what that
\* yields (the plaintext, or a placeholder when it does not decrypt).
C14_LegacyReadable ==
  \A i \in 1..Len(messages) :
    LET entry == ShownWith(ReaderCache, messages).val[i]
        parsed == JSON_parse(messages[i].content)
        opened == decryptMessage(ReaderStorage, parsed.val,
                                 parsed.val.ephemeralPublicKey, Reader, FALSE)
    IN  /\ LegacyText(i) => entry.decryptedContent = messages[i].content
        /\ LegacyEnvelope(i) =>
             IF opened.ok THEN entry.decryptedContent = Text(opened.val)
             ELSE entry.decryptedContent \in UndecryptablePlaceholders

(* ------------------ C21 to C26: the key store, continued --------------- *)

\* a step of handleAuth that generates a key pair and ends in the catch: signUp
\* failed, or storeHybridPrivateKeys threw
KeyGenerationFails ==
  /\ generated' # generated
  /\ \A d \in Devices : auth'[d] = auth[d] \/ auth'[d] = AuthIdle

\* C21: a storeHybridPrivateKeys call that fails because the storage rejects a
\* write leaves the entry of its user as it was before the call, never one new
\* half with an old or missing other half.
C21_RejectedWriteLeavesEntry ==
  [][KeyGenerationFails =>
       \A d \in Devices, u \in Users :
         EntryOf(localStorage'[d], u) = EntryOf(localStorage[d], u)]_vars

\* C22: after any sequence of store and clear calls for several users,
\* listUsersWithKeys is exactly the set of the users for whom hasUserKeys is
\* true.
C22_ListIsUsersWithKeys ==
  NoCallRunning =>
    listUsersWithKeys(localStorage[Here])
      = {u \in Users : hasUserKeys(localStorage[Here], u)}

(* ------------- crypto.ts: the per-conversation key pairs --------------- *)

storeEphemeralPrivateKey(ls, conversationId, privateKey) ==
  setItem(ls, getEphemeralPrivateKeyName(conversationId), privateKey)

getEphemeralPrivateKey(ls, conversationId) == ls[getEphemeralPrivateKeyName(conversationId)]

\* clearAllKeys: every item whose name starts with one of the three prefixes
clearAllKeys(ls) ==
  [n \in DOMAIN ls |->
     IF n[1] \in {"identity_private_key_", "pqc_identity_private_key_", "ephemeral_key_"}
     THEN Null ELSE ls[n]]

\* the KeyPair record of a raw pair
EncodedPair(rawPair) ==
  [publicKey |-> encodeBase64(rawPair.publicKey),
   privateKey |-> encodeBase64(rawPair.secretKey)]

\* the branch of deriveConversationKeyPair for a stored private key
ExistingPair(existingPrivateKey, privateKeyUint8) ==
  IF ~privateKeyUint8.ok THEN privateKeyUint8
  ELSE IF ~box_keyPair_fromSecretKey(privateKeyUint8.val).ok
  THEN box_keyPair_fromSecretKey(privateKeyUint8.val)
  ELSE Ok([publicKey |->
             encodeBase64(box_keyPair_fromSecretKey(privateKeyUint8.val).val.publicKey),
           privateKey |-> existingPrivateKey])

\* a faulty deriveConversationKeyPair: a pair is generated at every call
deriveConversationKeyPairFresh(ls, conversationId, seed, accepted) ==
  [result |-> IF accepted THEN Ok(EncodedPair(box_keyPair(seed)))
              ELSE Throw("QuotaExceededError"),
   generated |-> TRUE,
   ls |-> IF accepted
          THEN storeEphemeralPrivateKey(ls, conversationId,
                                        EncodedPair(box_keyPair(seed)).privateKey)
          ELSE ls]

\* deriveConversationKeyPair on the storage ls: what it returns or throws,
\* whether it drew the random bytes of `seed`, and the storage afterwards
\* (accepted: the storage accepts the setItem)
deriveConversationKeyPair(ls, conversationId, seed, accepted) ==
  IF Truthy(getEphemeralPrivateKey(ls, conversationId))
  THEN [result |-> ExistingPair(getEphemeralPrivateKey(ls, conversationId),
                                decodeBase64(getEphemeralPrivateKey(ls, conversationId))),
        generated |-> FALSE, ls |-> ls]
  ELSE deriveConversationKeyPairFresh(ls, conversationId, seed, accepted)

\* the context that works with the conversations
ConversationTab == "t2"

\* a context calls deriveConversationKeyPair
DeriveConversationKeyPair(conversationId, accepted) ==
  LET call == deriveConversationKeyPair(localStorage[Here], conversationId,
                                        NextSeed(usedSeeds), accepted)
  IN  /\ call.generated => Cardinality(usedSeeds) < MaxDerive
      /\ ~accepted => call.generated
      /\ usedSeeds' = IF call.generated THEN usedSeeds \cup {NextSeed(usedSeeds)}
                      ELSE usedSeeds
      /\ localStorage' = [localStorage EXCEPT ![Here] = call.ls]
      /\ tabs' = [tabs EXCEPT ![ConversationTab] =
                    [op |-> "deriveConversationKeyPair",
                     pc |-> IF call.result.ok THEN "returned" ELSE "threw",
                     conversationId |-> conversationId, generated |-> call.generated,
                     keyPair |-> call.result.val]]
      /\ UNCHANGED <<profiles, enc, wire, dec, dual, accounts, session, generated, auth,
                     completed, chat, messages, faults>>

\* a context calls clearAllKeys
ClearAllKeys ==
  /\ localStorage' = [localStorage EXCEPT ![Here] = clearAllKeys(@)]
  /\ tabs' = [tabs EXCEPT ![ConversationTab] = [TabIdle EXCEPT !.op = "clearAllKeys",
                                                               !.pc = "returned"]]
  /\ UNCHANGED <<profiles, cryptoVars, accounts, session, generated, auth, completed,
                 chat, messages, faults>>

\* the context that stores and clears identity keys
IdentityTab == "t1"

KeysNext ==
  \/ \E c \in Conversations, accepted \in BOOLEAN : DeriveConversationKeyPair(c, accepted)
  \/ ClearAllKeys
  \/ \E u \in Users, args \in StoreArguments, accepted \in BOOLEAN :
       StoreFirst(IdentityTab, u, args[1], args[2], accepted)
  \/ \E accepted \in BOOLEAN : StoreSecond(IdentityTab, accepted)
  \/ \E u \in Users : ClearFirst(IdentityTab, u)
  \/ ClearSecond(IdentityTab)

\* the key store of one device: a context that works with the conversations
\* and a context that stores and clears identity keys, from an empty storage
SpecKeys == Init /\ [][KeysNext]_vars

(* --------------- C23: the per-conversation key pairs ------------------- *)

\* the last call of the context that works with the conversations
LastConversationCall == tabs[ConversationTab]

\* this step is a deriveConversationKeyPair call for conversation c
DeriveStep(c) ==
  /\ tabs'[ConversationTab].op = "deriveConversationKeyPair"
  /\ tabs'[ConversationTab].conversationId = c
  /\ <<tabs'[ConversationTab], usedSeeds'>> # <<tabs[ConversationTab], usedSeeds>>

\* the public key that belongs to an encoded private key
PublicKeyOf(privateKey) == encodeBase64(ModExp(BasePoint, privateKey.v - 100))

\* the items of the storage other than the per-conversation key of c
OtherItems(ls, c) == [n \in DOMAIN ls \ {getEphemeralPrivateKeyName(c)} |-> ls[n]]

\* a call for c that finds a stored key returns it with its public key and
\* generates and stores nothing; a call that finds none generates a pair and,
\* when it returns, has stored the private key it returns; no call touches
\* the key of another conversation
DeriveReturnsStored ==
  \A c \in Conversations :
    DeriveStep(c) =>
      LET stored == getEphemeralPrivateKey(localStorage[Here], c)
          call == tabs'[ConversationTab]
      IN  /\ OtherItems(localStorage'[Here], c) = OtherItems(localStorage[Here], c)
          /\ IF stored # Null
             THEN /\ call.pc = "returned" /\ ~call.generated
                  /\ call.keyPair = [publicKey |-> PublicKeyOf(stored), privateKey |-> stored]
                  /\ localStorage' = localStorage /\ usedSeeds' = usedSeeds
             ELSE /\ call.generated /\ usedSeeds' # usedSeeds
                  /\ call.pc = "returned" =>
                       /\ call.keyPair.publicKey = PublicKeyOf(call.keyPair.privateKey)
                       /\ getEphemeralPrivateKey(localStorage'[Here], c)
                            = call.keyPair.privateKey
                  /\ call.pc = "threw" => localStorage' = localStorage

\* a stored per-conversation key changes only in a clearAllKeys call
StoredUntilCleared ==
  \A c \in Conversations :
    LET stored == getEphemeralPrivateKey(localStorage[Here], c)
    IN  (stored # Null /\ getEphemeralPrivateKey(localStorage'[Here], c) # stored)
          => localStorage'[Here] = clearAllKeys(localStorage[Here])

\* C23: deriveConversationKeyPair is stable per conversation: the first call
\* that returns for a conversation generates a pair and stores its private
\* key; until a clearAllKeys every later call for the conversation returns
\* that private key with the public key derived from it, and generates and
\* stores nothing; calls for other conversations change nothing of it.
C23_StablePerConversation == [][DeriveReturnsStored /\ StoredUntilCleared]_vars

\* a later call for a conversation has returned its stored key, while another
\* conversation holds another key and an identity pair is stored as well
C23_Witness ==
  /\ LastConversationCall.op = "deriveConversationKeyPair"
  /\ LastConversationCall.pc = "returned" /\ ~LastConversationCall.generated
  /\ \E c \in Conversations :
       /\ c # LastConversationCall.conversationId
       /\ getEphemeralPrivateKey(localStorage[Here], c) # Null
       /\ getEphemeralPrivateKey(localStorage[Here], c) # LastConversationCall.keyPair.privateKey
  /\ \E u \in Users : hasUserKeys(localStorage[Here], u)

(* ---------------- C24: keys are destroyed explicitly only -------------- *)

\* handleSignOut or handleRemoveAccount can be called on device d
SignedInAtRest(d) == session[d] # NoUser /\ auth[d].pc = "idle"

\* the storage ls without the entry of u, and nothing else changed
WithoutEntry(ls, after, u) ==
  /\ EntryOf(after, u) = <<Null, Null>>
  /\ \A n \in DOMAIN ls :
       n \notin {getIdentityPrivateKeyName(u), getPqcIdentityPrivateKeyName(u)}
         => after[n] = ls[n]

\* what the two handlers do to the storage for each answer
AnswerDecides ==
  \A d \in Devices :
    SignedInAtRest(d) =>
      LET ls == localStorage[d]
      IN  /\ signOutStorage(ls, session[d], TRUE) = ls
          /\ WithoutEntry(ls, signOutStorage(ls, session[d], FALSE), session[d])
          /\ \A userId \in listUsersWithKeys(ls) \ {session[d]} :
               /\ removeAccountStorage(ls, userId, FALSE) = ls
               /\ WithoutEntry(ls, removeAccountStorage(ls, userId, TRUE), userId)

\* a sign-out leaves the storage as one of the two answers does; and an item
\* of the storage is removed only by a sign-out, for the user who signs out,
\* or by the removal of a saved account
RemovedByHandlersOnly ==
  \A d \in Devices :
    LET ls == localStorage[d]
    IN  /\ (session[d] # NoUser /\ session'[d] = NoUser)
             => \E keepKeys \in BOOLEAN :
                  localStorage'[d] = signOutStorage(ls, session[d], keepKeys)
        /\ (\E n \in DOMAIN ls : ls[n] # Null /\ localStorage'[d][n] = Null)
             => /\ SignedInAtRest(d)
                /\ IF session'[d] = NoUser
                   THEN localStorage'[d] = signOutStorage(ls, session[d], FALSE)
                   ELSE \E userId \in listUsersWithKeys(ls) \ {session[d]} :
                          localStorage'[d] = removeAccountStorage(ls, userId, TRUE)

\* C24: handleSignOut removes the keys of the signed-in user exactly when the
\* user declines to keep them, handleRemoveAccount removes the keys of the
\* chosen user only when confirmed; with the other answer the key store is
\* unchanged, and nothing else removes a key.
C24_ExplicitDestructionOnly == []AnswerDecides /\ [][RemovedByHandlersOnly]_vars

\* a user is signed in with keys on a device where another user has signed
\* out and kept theirs
C24_Witness ==
  \E d \in Devices :
    /\ SignedInAtRest(d) /\ hasUserKeys(localStorage[d], session[d])
    /\ \E v \in Users \ {session[d]} : hasUserKeys(localStorage[d], v)

(* ------------- C25: the crypto functions leave the key store ----------- *)

\* this step is a call of encryptMessage or of decryptMessage (or the two
\* encryptMessage calls of a send)
CryptoCallStep == enc' # enc \/ dec' # dec \/ dual' # dual

\* C25: encryptMessage and decryptMessage never modify the local key store:
\* whether the call succeeds or fails, the identity private keys of every user
\* and the per-conversation keys are the same before and after it.
C25_CryptoLeavesKeyStore == [][CryptoCallStep => localStorage' = localStorage]_vars

\* a decryptMessage call for a user with stored keys has failed, after an
\* encryptMessage call that succeeded, on a storage that holds a
\* per-conversation key as well
C25_Witness ==
  /\ enc.called /\ enc.result.ok
  /\ dec.called /\ ~dec.result.ok /\ hasUserKeys(localStorage[Here], dec.user)
  /\ \E c \in Conversations : getEphemeralPrivateKey(localStorage[Here], c) # Null

(* ------------------------ C26: per-user isolation ---------------------- *)

\* this step is a write of a storeHybridPrivateKeys or clearUserKeys call
IdentityStep == tabs'[IdentityTab] # tabs[IdentityTab]

\* what decryptMessage makes of the sample envelopes for user v on storage ls
Decryptions(ls, v) ==
  [e \in SampleEnvelopes |-> decryptMessage(ls, e, e.ephemeralPublicKey, v, FALSE)]

\* the step changes no item but the two of user u, and for every other user
\* hasUserKeys and decryptMessage give what they gave before
OnlyEntryOf(u) ==
  /\ \A n \in DOMAIN localStorage[Here] :
       n \notin {getIdentityPrivateKeyName(u), getPqcIdentityPrivateKeyName(u)}
         => localStorage'[Here][n] = localStorage[Here][n]
  /\ \A v \in Users \ {u} :
       /\ hasUserKeys(localStorage'[Here], v) = hasUserKeys(localStorage[Here], v)
       /\ Decryptions(localStorage'[Here], v) = Decryptions(localStorage[Here], v)

\* C26: storeHybridPrivateKeys(u, ...) and clearUserKeys(u) change only the
\* two store entries of u: the private halves of every other user and the
\* per-conversation keys stay, and hasUserKeys and decryption for every other
\* user are unaffected.
C26_PerUserIsolation == [][IdentityStep => OnlyEntryOf(tabs'[IdentityTab].userId)]_vars

\* a store call for a user has returned while another user holds keys that
\* open a sample envelope, and a per-conversation key is stored
C26_Witness ==
  /\ tabs[IdentityTab].op = "storeHybridPrivateKeys" /\ tabs[IdentityTab].pc = "returned"
  /\ \E v \in Users \ {tabs[IdentityTab].userId} :
       /\ hasUserKeys(localStorage[Here], v)
       /\ \E e \in SampleEnvelopes : Decryptions(localStorage[Here], v)[e].ok
  /\ \E c \in Conversations : getEphemeralPrivateKey(localStorage[Here], c) # Null

(* ------------- C27 to C30: the list of messages on screen -------------- *)

\* the rows of a conversation: the messages of the model are those of the
\* first conversation, and nobody writes in the second
ConversationRows(c) == IF c = "c1" THEN messages ELSE <<>>

\* a loadMessages call for conversation c that has not read the rows yet
LoadStarted(c) == [conversationId |-> c, pc |-> "fetch", rows |-> 0]

\* u1 is signed in with their keys and has the first conversation open; its
\* first loadMessages call has returned
ChatInit ==
  /\ LoadInit
  /\ localStorage[Here] = StoreStates(EmptyStorage, "u1", KeysAt(1), KeysAt(2))["full"]

\* the peer inserts a row in the first conversation; the channel of the open
\* conversation delivers it, and the handler starts a loadMessages call for a
\* row that is not the user's own
PeerInsert(d) ==
  /\ session[d] # NoUser /\ auth[d].pc = "idle"
  /\ Len(messages) < MaxRows
  /\ chat[d].conversationId = "c1" => Cardinality(chat[d].loads) < MaxLoads
  /\ messages' = Append(messages,
                        [sender_id |-> Peer(session[d]),
                         content |-> ArrivingContent(Peer(session[d]), "dual", FALSE,
                                                     ArrivingSeeds(Len(messages)))])
  /\ chat' = [chat EXCEPT ![d].loads =
                IF chat[d].conversationId = "c1" THEN @ \cup {LoadStarted("c1")} ELSE @]
  /\ UNCHANGED <<tabs, localStorage, profiles, cryptoVars, accounts, session, generated,
                 auth, completed, faults>>

\* the query of a loadMessages call returns (ok: without error). An error ends
\* the call, no row sets the empty list at once, and rows are decrypted before
\* the list is set
LoadFetch(d, l, ok) ==
  LET n == Len(ConversationRows(l.conversationId))
  IN  /\ l \in chat[d].loads /\ l.pc = "fetch"
      /\ Failures(Failed(ok))
      /\ chat' = [chat EXCEPT ![d].loads =
                    (@ \ {l}) \cup (IF ok /\ n > 0 THEN {[l EXCEPT !.pc = "set", !.rows = n]}
                                    ELSE {}),
                              ![d].messages = IF ok /\ n = 0 THEN <<>> ELSE @]
      /\ UNCHANGED <<tabs, localStorage, profiles, cryptoVars, accounts, session,
                     generated, auth, completed, messages>>

\* setMessages(decryptedMessages): a loadMessages call replaces the list by the
\* rows it read, whichever conversation is selected by then
LoadSet(d, l) ==
  /\ l \in chat[d].loads /\ l.pc = "set"
  /\ chat' = [chat EXCEPT ![d].loads = @ \ {l},
                          ![d].ownMessagesCache =
                            cacheAfterLoad(localStorage[d], @,
                                           SubSeq(messages, 1, l.rows), session[d]),
                          ![d].messages = loadedMessages(l.rows)]
  /\ UNCHANGED <<tabs, localStorage, profiles, cryptoVars, accounts, session, generated,
                 auth, completed, messages, faults>>

\* the user selects conversation c: the effect of ChatWindow empties the cache
\* and starts a loadMessages call; the list stays as it is
SelectConversation(d, c) ==
  /\ session[d] # NoUser /\ auth[d].pc = "idle"
  /\ c # chat[d].conversationId
  /\ Cardinality(chat[d].loads) < MaxLoads
  /\ chat' = [chat EXCEPT ![d].conversationId = c,
                          ![d].ownMessagesCache = <<>>,
                          ![d].loads = @ \cup {LoadStarted(c)}]
  /\ UNCHANGED <<tabs, localStorage, profiles, cryptoVars, accounts, session, generated,
                 auth, completed, messages, faults>>

\* the steps of a send
SendStep ==
  \/ \E ok \in BOOLEAN, fault \in {"none", "first", "second"} : SendEncrypt(Here, ok, fault)
  \/ \E ok \in BOOLEAN : SendInsert(Here, ok)

ChatNext ==
  \/ PeerInsert(Here)
  \/ \E l \in chat[Here].loads, ok \in BOOLEAN : LoadFetch(Here, l, ok)
  \/ \E l \in chat[Here].loads : LoadSet(Here, l)
  \/ loadRecipientPublicKey(Here)
  \/ \E m \in NewMessages :
       /\ chat[Here].conversationId = "c1" /\ Cardinality(usedSeeds) < 2 * MaxSends
       /\ SendSubmit(Here, m)
  \/ SendStep

\* one ChatWindow on one conversation: the peer writes, the user sends, and
\* the realtime events reload the list
SpecChat == ChatInit /\ [][ChatNext]_vars

\* the same, where the requests that a running send awaits (the fetch of the
\* own profile, the insert) come back, and the send goes on when they do
SpecChatFair == SpecChat /\ WF_vars(SendStep)

SwitchNext ==
  \/ ChatNext
  \/ \E c \in Conversations : SelectConversation(Here, c)

\* the same with a user who moves between two conversations
SpecSwitch == ChatInit /\ [][SwitchNext]_vars

(* ------------------ C27: a sent message is shown once ------------------ *)

\* this step is the insert of a send that stored its message
SendStored ==
  /\ chat[Here].pc = "insert" /\ chat'[Here].pc = "idle"
  /\ Len(messages') = Len(messages) + 1

\* the places of the list that show the message with this id
Shown(list, id) == {i \in DOMAIN list : list[i].id = id}

\* C27: after a sendMessage call completes successfully, the messages list
\* contains the sent message exactly once, under its server id and with
\* isPending false, for every interleaving of the send with the loadMessages
\* runs that realtime INSERT events trigger.
C27_SentShownOnce ==
  [][SendStored =>
       /\ Cardinality(Shown(chat'[Here].messages, Len(messages'))) = 1
       /\ \A i \in Shown(chat'[Here].messages, Len(messages')) :
            ~chat'[Here].messages[i].isPending]_vars

(* --------------------- C28: no stale conversation ---------------------- *)

\* every loadMessages call has returned, no send is running, and no request
\* has failed
ChatAtRest == chat[Here].loads = {} /\ chat[Here].pc = "idle" /\ faults = 0

\* C28: the messages list shown for the selected conversation contains only
\* messages of that conversation, even when a loadMessages call or a send
\* started for a previously selected conversation completes after the user has
\* switched. Stated for the moments at which no call is running any more and
\* none has failed: what the list shows then, it keeps showing.
C28_NoStaleConversation ==
  ChatAtRest =>
    \A i \in DOMAIN chat[Here].messages :
      chat[Here].messages[i].id \in DOMAIN ConversationRows(chat[Here].conversationId)

(* --------------------------- C29: send lock ---------------------------- *)

\* the ids of the optimistic entries of a list
PendingIds(list) == {list[i].id : i \in {j \in DOMAIN list : list[j].isPending}}

\* this step appends a row of the user to the messages table
OwnRowInserted ==
  /\ Len(messages') = Len(messages) + 1
  /\ messages'[Len(messages')].sender_id = session[Here]

\* isSending is true exactly while a send is running, and the list holds no
\* optimistic entry but the one of that send
OneSendInFlight ==
  /\ chat[Here].isSending <=> chat[Here].pc # "idle"
  /\ Cardinality({i \in DOMAIN chat[Here].messages : chat[Here].messages[i].isPending}) <= 1
  /\ PendingIds(chat[Here].messages) \subseteq {chat[Here].tempId}

\* while isSending is true no step adds an optimistic entry, and a step that
\* encrypts or inserts is the next step of the one running send; while it is
\* false no step encrypts or inserts
SendLocked ==
  /\ chat[Here].isSending =>
       /\ PendingIds(chat'[Here].messages) \subseteq PendingIds(chat[Here].messages)
       /\ usedSeeds' # usedSeeds =>
            chat[Here].pc = "ownProfile" /\ chat'[Here].pc \in {"insert", "idle"}
       /\ OwnRowInserted => chat[Here].pc = "insert" /\ chat'[Here].pc = "idle"
  /\ ~chat[Here].isSending => usedSeeds' = usedSeeds /\ ~OwnRowInserted

\* C29: at most one send is in flight per ChatWindow; while isSending is true
\* a further sendMessage invocation returns without adding an optimistic
\* entry, without encrypting and without inserting a message.
C29_SendLock == []OneSendInFlight /\ [][SendLocked]_vars

\* a send has encrypted its message and waits for the insert, with its
\* optimistic entry on screen after a row of the peer
C29_Witness ==
  /\ chat[Here].isSending /\ chat[Here].pc = "insert"
  /\ chat[Here].conversationId = "c1"
  /\ PendingIds(chat[Here].messages) = {chat[Here].tempId}
  /\ Len(chat[Here].messages) = 2

(* ------------------------ C30: a send settles -------------------------- *)

\* isSending is false and the list holds no optimistic entry
Settled == ~chat[Here].isSending /\ PendingIds(chat[Here].messages) = {}

\* C30: every sendMessage invocation that sets isSending to true eventually
\* resets it to false and leaves no entry with isPending true in the messages
\* list, whichever step (own-profile fetch, recipient key check, either
\* encryption, message insert) succeeds or fails.
C30_SendSettles == chat[Here].isSending ~> Settled

\* a send has ended on a failure after it drew its random bytes (an
\* encryption or the insert failed) and has left the row of the peer on the list
C30_Witness ==
  /\ Settled /\ faults > 0 /\ usedSeeds # {}
  /\ chat[Here].messages # <<>>
  /\ \A i \in DOMAIN messages : messages[i].sender_id # session[Here]
====
